---------------------------- MODULE Spec2Model ----------------------------
(***************************************************************************)
(* Model of CNetworkPlayer (Client/Core/CNetworkPlayer.cpp): the vehicle   *)
(* enter/exit state machine, the health/armour locks, the control state    *)
(* snapshots and the position interpolation of a player, together with the *)
(* part of the simulation (peds, tasks, vehicles, occupant tables) that    *)
(* these methods read and write.                                           *)
(*                                                                         *)
(* Every method is an operator from a world record S to a world record;    *)
(* the actions apply one method (or one step of Pulse) and commit S.       *)
(***************************************************************************)
EXTENDS Integers, Sequences, FiniteSets, TLC

\* ------------------------------------------------------------------ bounds
NumPlayers == 2
NumVehicles == 2
MaxPassengers == 1
MaxAttr == 2
MaxDelay == 2
MaxClock == 3

\* ------------------------------------------------------- program constants
SpawnHealth == 200
SnapDistance == 5
MaxEnterDistance == 6

NULL == 0
LocalPlayer == 1
Players == 1..NumPlayers
RemotePlayers == Players \ {LocalPlayer}
Vehicles == 1..NumVehicles
Seats == 0..MaxPassengers
HealthValues == (0..MaxAttr) \cup {SpawnHealth}
ArmourValues == 0..MaxAttr
TaskKinds == {"none", "getin", "getout"}
NearFar == {3, 7}
Delays == 1..MaxDelay
Targets == {0, 3, 8}

\* Positions are kept on a grid of 1/Scale world units, fine enough for
\* every slice of an interpolation to be a whole number of grid units: a
\* slice divides an error vector by the length of the interval (at most
\* MaxDelay), and a non-zero slice needs a new reading of the clock.
RECURSIVE Gcd(_, _)
Gcd(a, b) == IF b = 0 THEN a ELSE Gcd(b, a % b)
RECURSIVE Lcm(_)
Lcm(n) == IF n <= 1 THEN 1 ELSE (Lcm(n - 1) * n) \div Gcd(Lcm(n - 1), n)
Scale == Lcm(MaxDelay) ^ MaxClock

VARIABLES
    players,     \* p -> the members of the CNetworkPlayer object
    peds,        \* p -> the simulation's ped of the player (m_pPlayerPed)
    vehicles,    \* v -> the CNetworkVehicle object and its game vehicle
    inputOn,     \* CGame::GetInputState() && !m_bControlsDisabled
    clock,       \* SharedUtility::GetTime()
    pc,          \* position inside Pulse: "idle" between handlers
    cur,         \* the player whose Pulse is in progress (NULL when idle)
    out,         \* the RPCs sent by the step just taken
    crashed,     \* the process has faulted on a NULL dereference
    trace,       \* p -> observation record of the lock scenario (history only)
    actor        \* the player object whose handlers the environment drives

vars == <<players, peds, vehicles, inputOn, clock, pc, cur, out, crashed, trace, actor>>

\* The world the methods operate on.
World ==
    [pl |-> players, ped |-> peds, veh |-> vehicles, out |-> out, crashed |-> crashed]

Commit(S) ==
    /\ players' = S.pl
    /\ peds' = S.ped
    /\ vehicles' = S.veh
    /\ out' = S.out
    /\ crashed' = S.crashed

ZeroControlState == [enterExit |-> FALSE, horn |-> FALSE]
ControlStates == [enterExit : BOOLEAN, horn : BOOLEAN]

ZeroEnterExit ==
    [bEntering |-> FALSE, pVehicle |-> NULL, byteSeatId |-> 0,
     bExiting |-> FALSE, bRequesting |-> FALSE]

ZeroInterp ==
    [vecTarget |-> 0, vecError |-> 0, ulStartTime |-> 0, ulFinishTime |-> 0, fLastAlpha |-> 0]

\* The entities of the game (IVEntity *): the ped of a player, the game
\* vehicle of a streamed-in vehicle. The CNetworkVehicle object of a vehicle
\* is an object of its own and no entity of the game.
NoEntity == <<"none", 0>>
PedEntity(p) == <<"ped", p>>
VehicleEntity(v) == <<"vehicle", v>>
VehicleObject(v) == <<"CNetworkVehicle", v>>
INVALID_ENTITY_ID == 255
WeaponIds == 0..1

\* the client control states of a pad (CIVPad): the game's pad for the local
\* player, the pad of the player's context data for a remote player
ZeroPad == [last |-> ZeroControlState, current |-> ZeroControlState]

\* A freshly constructed ped: on foot, no task, full default attributes.
NoPed ==
    [health |-> 0, armour |-> 0, pos |-> 0, inVehicle |-> FALSE,
     task |-> "none", dieTask |-> FALSE, pad |-> ZeroPad,
     lastDamage |-> NoEntity, weapon |-> 0]

\* CNetworkPlayer::CNetworkPlayer. Members the constructor leaves
\* uninitialised and that are read before they are written (m_uiHealth,
\* m_vecPos, m_bVehicleDeathCheck of the local player) take any value; the
\* ones that are always written before they are read start at 0.
NewPlayer(p, uiHealth, bDeathCheck) ==
    [m_bSpawned |-> (p = LocalPlayer),
     m_pVehicle |-> NULL,
     m_byteVehicleSeatId |-> 0,
     m_bHealthLocked |-> FALSE,
     m_uiLockedHealth |-> 0,
     m_bArmourLocked |-> FALSE,
     m_uiLockedArmour |-> 0,
     m_uiHealth |-> uiHealth,
     m_vecPos |-> 0,
     m_previousControlState |-> ZeroControlState,
     m_currentControlState |-> ZeroControlState,
     m_vehicleEnterExit |-> ZeroEnterExit,
     m_bVehicleDeathCheck |-> bDeathCheck,
     m_interp |-> ZeroInterp]

IsLocalPlayer(p) == p = LocalPlayer
IsSpawned(S, p) == S.pl[p].m_bSpawned
IsInVehicle(S, p) == S.pl[p].m_pVehicle # NULL
HasVehicleEnterExit(S, p) ==
    S.pl[p].m_vehicleEnterExit.bEntering \/ S.pl[p].m_vehicleEnterExit.bExiting
HasTargetPosition(S, p) == S.pl[p].m_interp.ulFinishTime # 0

\* CNetworkVehicle, as far as CNetworkPlayer uses it.
IsNetworkVehicle(v) == v % 2 = 1
IsStreamedIn(S, v) == S.veh[v].streamedIn
GetDoorLockState(S, v) == S.veh[v].doorLockState
GetOccupant(S, v, seat) == S.veh[v].occupant[seat]
GetDriver(S, v) == S.veh[v].occupant[0]
GetPassenger(S, v, i) == S.veh[v].occupant[i + 1]
SetOccupant(S, v, seat, who) == [S EXCEPT !.veh[v].occupant[seat] = who]
SetDriver(S, v, who) == SetOccupant(S, v, 0, who)
ForceStreamIn(S, v) == [S EXCEPT !.veh[v].streamedIn = TRUE]

\* g_pNetworkManager->RPC(...): the message is handed to the transport
Send(S, msg) == [S EXCEPT !.out = Append(@, msg)]

\* the damageable flag belongs to the game vehicle and is never read back
\* here: the call is recorded next to the RPCs of the handler
SetDamageable(S, v, b) == Send(S, <<"SetDamageable", v, b>>)

\* ------------------------------------------------------ health and armour
SetHealth(S, p, uiHealth) ==
    LET S1 == IF IsSpawned(S, p) THEN [S EXCEPT !.ped[p].health = uiHealth] ELSE S
    IN  [S1 EXCEPT !.pl[p].m_bHealthLocked = FALSE]

LockHealth(S, p, uiHealth) ==
    LET S1 == SetHealth(S, p, uiHealth)
    IN  [S1 EXCEPT !.pl[p].m_uiLockedHealth = uiHealth,
                   !.pl[p].m_bHealthLocked = TRUE]

GetHealth(S, p) ==
    IF S.pl[p].m_bHealthLocked THEN S.pl[p].m_uiLockedHealth
    ELSE IF IsSpawned(S, p) THEN S.ped[p].health
    ELSE 0

GetArmour(S, p) ==
    IF S.pl[p].m_bArmourLocked THEN S.pl[p].m_uiLockedArmour
    ELSE IF IsSpawned(S, p) THEN S.ped[p].armour
    ELSE 0

\* Scripting::AddArmourToChar: the simulation adds the (signed) amount and
\* keeps the armour inside its range.
AddArmourToChar(armour, amount) ==
    LET sum == armour + amount
    IN  IF sum < 0 THEN 0 ELSE IF sum > MaxAttr THEN MaxAttr ELSE sum

\* (uiArmour - GetArmour()): the unsigned 32-bit difference wraps and is
\* handed to the simulation as a signed amount, which gives back a - b for
\* every pair of values less than 2^31 apart.
UnsignedDiff(a, b) == a - b

SetArmour(S, p, uiArmour) ==
    LET S1 == IF IsSpawned(S, p)
              THEN [S EXCEPT !.ped[p].armour =
                        AddArmourToChar(@, UnsignedDiff(uiArmour, GetArmour(S, p)))]
              ELSE S
    IN  [S1 EXCEPT !.pl[p].m_bArmourLocked = FALSE]

LockArmour(S, p, uiArmour) ==
    LET S1 == SetArmour(S, p, uiArmour)
    IN  [S1 EXCEPT !.pl[p].m_uiLockedArmour = uiArmour,
                   !.pl[p].m_bArmourLocked = TRUE]

\* ----------------------------------------------------------- control state
\* SetControlState that hands the control state to a pad for the local
\* player only
SetControlStateLocalOnly(S, p, controlState) ==
    LET S1 == IF IsSpawned(S, p) /\ IsLocalPlayer(p)
              THEN [S EXCEPT !.ped[p].pad =
                        [last |-> S.pl[p].m_currentControlState, current |-> controlState]]
              ELSE S
    IN  [S1 EXCEPT !.pl[p].m_previousControlState = S.pl[p].m_currentControlState,
                   !.pl[p].m_currentControlState = controlState]

\* SetControlState that leaves m_previousControlState alone (line 1314
\* left out)
SetControlStateKeepsPrevious(S, p, controlState) ==
    LET S1 == IF IsSpawned(S, p)
              THEN [S EXCEPT !.ped[p].pad =
                        [last |-> S.pl[p].m_currentControlState, current |-> controlState]]
              ELSE S
    IN  [S1 EXCEPT !.pl[p].m_currentControlState = controlState]

\* lines 1286-1318. The pad is CGame::GetPad() for the local player and the
\* pad of m_pContextData for a remote player: a spawned remote player has
\* its context data (Create, line 138, before the ped is allocated).
SetControlState(S, p, controlState) ==
    LET S1 == IF IsSpawned(S, p)
              THEN [S EXCEPT !.ped[p].pad =
                        [last |-> S.pl[p].m_currentControlState, current |-> controlState]]
              ELSE S
    IN  [S1 EXCEPT !.pl[p].m_previousControlState = S.pl[p].m_currentControlState,
                   !.pl[p].m_currentControlState = controlState]

\* ----------------------------------------------------------- interpolation
\* RemoveTargetPosition that clears the finish time of a spawned player only
RemoveTargetPositionSpawnedOnly(S, p) ==
    IF IsSpawned(S, p) THEN [S EXCEPT !.pl[p].m_interp.ulFinishTime = 0] ELSE S

RemoveTargetPosition(S, p) == [S EXCEPT !.pl[p].m_interp.ulFinishTime = 0]

ResetInterpolation(S, p) == RemoveTargetPosition(S, p)

\* m_pPlayerPed->IsInVehicle() && m_pPlayerPed->GetCurrentVehicle()
InternalIsInVehicle(S, p) == IsSpawned(S, p) /\ S.ped[p].inVehicle

SetPosition(S, p, vecPosition, bResetInterpolation) ==
    LET S1 == IF IsSpawned(S, p) /\ ~InternalIsInVehicle(S, p) /\ ~HasVehicleEnterExit(S, p)
              THEN [S EXCEPT !.ped[p].pos = vecPosition]
              ELSE S
    IN  IF bResetInterpolation THEN RemoveTargetPosition(S1, p) ELSE S1

GetPosition(S, p) ==
    IF IsSpawned(S, p)
    THEN IF S.pl[p].m_pVehicle # NULL THEN S.veh[S.pl[p].m_pVehicle].pos ELSE S.ped[p].pos
    ELSE 0

Abs(x) == IF x < 0 THEN -x ELSE x

\* UpdateTargetPosition that snaps from the threshold on (>= for the > of
\* line 1550)
UpdateTargetPositionSnapsAtThreshold(S, p, ulCurrentTime) ==
    IF ~HasTargetPosition(S, p) THEN S
    ELSE
      LET ip == S.pl[p].m_interp
          vecCurrentPosition == GetPosition(S, p)
          len == ip.ulFinishTime - ip.ulStartTime
          raw == ulCurrentTime - ip.ulStartTime
          fAlpha == IF len <= 0 THEN 1
                    ELSE IF raw < 0 THEN 0 ELSE IF raw > len THEN len ELSE raw
          one == IF len <= 0 THEN 1 ELSE len
          fCurrentAlpha == fAlpha - ip.fLastAlpha
          vecCompensation == (fCurrentAlpha * ip.vecError) \div one
          tooFar == Abs(vecCurrentPosition - ip.vecTarget) >= SnapDistance * Scale
          finish == IF fAlpha = one \/ tooFar THEN 0 ELSE ip.ulFinishTime
          vecNewPosition == IF tooFar THEN ip.vecTarget
                            ELSE vecCurrentPosition + vecCompensation
          S1 == [S EXCEPT !.pl[p].m_interp.fLastAlpha = fAlpha,
                          !.pl[p].m_interp.ulFinishTime = finish]
      IN  SetPosition(S1, p, vecNewPosition, FALSE)

\* UpdateTargetPosition that leaves fLastAlpha as it was (line 1537 left
\* out), so that every tick applies the whole fraction again
UpdateTargetPositionKeepsLastAlpha(S, p, ulCurrentTime) ==
    IF ~HasTargetPosition(S, p) THEN S
    ELSE
      LET ip == S.pl[p].m_interp
          vecCurrentPosition == GetPosition(S, p)
          len == ip.ulFinishTime - ip.ulStartTime
          raw == ulCurrentTime - ip.ulStartTime
          fAlpha == IF len <= 0 THEN 1
                    ELSE IF raw < 0 THEN 0 ELSE IF raw > len THEN len ELSE raw
          one == IF len <= 0 THEN 1 ELSE len
          fCurrentAlpha == fAlpha - ip.fLastAlpha
          vecCompensation == (fCurrentAlpha * ip.vecError) \div one
          tooFar == Abs(vecCurrentPosition - ip.vecTarget) > SnapDistance * Scale
          finish == IF fAlpha = one \/ tooFar THEN 0 ELSE ip.ulFinishTime
          vecNewPosition == IF tooFar THEN ip.vecTarget
                            ELSE vecCurrentPosition + vecCompensation
          S1 == [S EXCEPT !.pl[p].m_interp.ulFinishTime = finish]
      IN  SetPosition(S1, p, vecNewPosition, FALSE)

\* UpdateTargetPosition without the clamp of line 1532: the fraction of time
\* spent is taken as it comes out of Math::Unlerp
UpdateTargetPositionNoClamp(S, p, ulCurrentTime) ==
    IF ~HasTargetPosition(S, p) THEN S
    ELSE
      LET ip == S.pl[p].m_interp
          vecCurrentPosition == GetPosition(S, p)
          len == ip.ulFinishTime - ip.ulStartTime
          raw == ulCurrentTime - ip.ulStartTime
          fAlpha == IF len <= 0 THEN 1 ELSE raw
          one == IF len <= 0 THEN 1 ELSE len
          fCurrentAlpha == fAlpha - ip.fLastAlpha
          vecCompensation == (fCurrentAlpha * ip.vecError) \div one
          tooFar == Abs(vecCurrentPosition - ip.vecTarget) > SnapDistance * Scale
          finish == IF fAlpha = one \/ tooFar THEN 0 ELSE ip.ulFinishTime
          vecNewPosition == IF tooFar THEN ip.vecTarget
                            ELSE vecCurrentPosition + vecCompensation
          S1 == [S EXCEPT !.pl[p].m_interp.fLastAlpha = fAlpha,
                          !.pl[p].m_interp.ulFinishTime = finish]
      IN  SetPosition(S1, p, vecNewPosition, FALSE)

\* fLastAlpha is kept as the numerator of a fraction over the length of the
\* interpolation interval (ulFinishTime - ulStartTime).
UpdateTargetPosition(S, p, ulCurrentTime) ==
    IF ~HasTargetPosition(S, p) THEN S
    ELSE
      LET ip == S.pl[p].m_interp
          vecCurrentPosition == GetPosition(S, p)
          len == ip.ulFinishTime - ip.ulStartTime
          raw == ulCurrentTime - ip.ulStartTime
          fAlpha == IF len <= 0 THEN 1
                    ELSE IF raw < 0 THEN 0 ELSE IF raw > len THEN len ELSE raw
          one == IF len <= 0 THEN 1 ELSE len
          fCurrentAlpha == fAlpha - ip.fLastAlpha
          vecCompensation == (fCurrentAlpha * ip.vecError) \div one
          tooFar == Abs(vecCurrentPosition - ip.vecTarget) > SnapDistance * Scale
          finish == IF fAlpha = one \/ tooFar THEN 0 ELSE ip.ulFinishTime
          vecNewPosition == IF tooFar THEN ip.vecTarget
                            ELSE vecCurrentPosition + vecCompensation
          S1 == [S EXCEPT !.pl[p].m_interp.fLastAlpha = fAlpha,
                          !.pl[p].m_interp.ulFinishTime = finish]
      IN  SetPosition(S1, p, vecNewPosition, FALSE)

Interpolate(S, p, ulCurrentTime) == UpdateTargetPosition(S, p, ulCurrentTime)

\* SetTargetPosition that takes the error vector from the position as it
\* was before the update of line 1577
SetTargetPositionErrorBeforeUpdate(S, p, vecPosition, ulDelay, ulTime) ==
    IF ~IsSpawned(S, p) THEN S
    ELSE
      LET S1 == UpdateTargetPosition(S, p, ulTime)
          vecCurrentPosition == GetPosition(S, p)
      IN  [S1 EXCEPT !.pl[p].m_interp =
               [vecTarget |-> vecPosition,
                vecError |-> vecPosition - vecCurrentPosition,
                ulStartTime |-> ulTime,
                ulFinishTime |-> ulTime + ulDelay,
                fLastAlpha |-> 0]]

SetTargetPosition(S, p, vecPosition, ulDelay, ulTime) ==
    IF ~IsSpawned(S, p) THEN S
    ELSE
      LET S1 == UpdateTargetPosition(S, p, ulTime)
          vecCurrentPosition == GetPosition(S1, p)
      IN  [S1 EXCEPT !.pl[p].m_interp =
               [vecTarget |-> vecPosition,
                vecError |-> vecPosition - vecCurrentPosition,
                ulStartTime |-> ulTime,
                ulFinishTime |-> ulTime + ulDelay,
                fLastAlpha |-> 0]]

\* ------------------------------------------------------------ ped tasks
IsGettingInToAVehicle(S, p) == IsSpawned(S, p) /\ S.ped[p].task = "getin"
IsGettingOutOfAVehicle(S, p) == IsSpawned(S, p) /\ S.ped[p].task = "getout"
IsDying(S, p) == IsSpawned(S, p) /\ S.ped[p].dieTask
IsDead(S, p) == IF IsSpawned(S, p) THEN IsDying(S, p) ELSE FALSE

\* pTask->SetAsPedTask(m_pPlayerPed, TASK_PRIORITY_PRIMARY)
SetPrimaryTask(S, p, kind) == [S EXCEPT !.ped[p].task = kind]

ClearVehicleEntryTask(S, p) ==
    IF IsSpawned(S, p) /\ S.ped[p].task = "getin"
    THEN SetPrimaryTask(S, p, "none") ELSE S

ClearVehicleExitTask(S, p) ==
    IF IsSpawned(S, p) /\ S.ped[p].task = "getout"
    THEN SetPrimaryTask(S, p, "none") ELSE S

ClearDieTask(S, p) ==
    IF IsSpawned(S, p) /\ S.ped[p].dieTask
    THEN [S EXCEPT !.ped[p].dieTask = FALSE] ELSE S

ResetVehicleEnterExit(S, p) ==
    LET S1 == [S EXCEPT !.pl[p].m_vehicleEnterExit = ZeroEnterExit]
    IN  ClearVehicleExitTask(ClearVehicleEntryTask(S1, p), p)

\* ---------------------------------------------- put in / remove (internal)
InternalPutInVehicle(S, p, v, byteSeatId) ==
    IF IsSpawned(S, p) /\ ~InternalIsInVehicle(S, p)
    THEN [S EXCEPT !.ped[p].inVehicle = TRUE]
    ELSE S

InternalRemoveFromVehicle(S, p) ==
    IF IsSpawned(S, p) /\ S.pl[p].m_pVehicle # NULL
    THEN LET S1 == SetDamageable(S, S.pl[p].m_pVehicle, FALSE)
         IN  [S1 EXCEPT !.ped[p].inVehicle = FALSE]
    ELSE S

Crash(S) == [S EXCEPT !.crashed = TRUE]

\* EnterVehicle without the early return of lines 2013-2015 (already in a
\* vehicle)
EnterVehicleWhileInVehicle(S, p, pVehicle, byteSeatId) ==
    IF ~IsSpawned(S, p) \/ pVehicle = NULL THEN S
    ELSE
      LET S1 == IF ~IsStreamedIn(S, pVehicle) /\ IsLocalPlayer(p)
                THEN ForceStreamIn(S, pVehicle) ELSE S
      IN  IF IsStreamedIn(S1, pVehicle) /\ GetDoorLockState(S1, pVehicle) = 0
          THEN LET S2 == SetPrimaryTask(S1, p, "getin")
                   S3 == [S2 EXCEPT !.pl[p].m_vehicleEnterExit.bEntering = TRUE,
                                    !.pl[p].m_vehicleEnterExit.pVehicle = pVehicle,
                                    !.pl[p].m_vehicleEnterExit.byteSeatId = byteSeatId]
               IN  ResetInterpolation(S3, p)
          ELSE S1

\* EnterVehicle without the door lock test of line 2019
EnterVehicleIgnoresLock(S, p, pVehicle, byteSeatId) ==
    IF ~IsSpawned(S, p) \/ pVehicle = NULL THEN S
    ELSE
      LET S1 == IF ~IsStreamedIn(S, pVehicle) /\ IsLocalPlayer(p)
                THEN ForceStreamIn(S, pVehicle) ELSE S
      IN  IF IsInVehicle(S1, p) THEN S1
          ELSE IF IsStreamedIn(S1, pVehicle)
          THEN LET S2 == SetPrimaryTask(S1, p, "getin")
                   S3 == [S2 EXCEPT !.pl[p].m_vehicleEnterExit.bEntering = TRUE,
                                    !.pl[p].m_vehicleEnterExit.pVehicle = pVehicle,
                                    !.pl[p].m_vehicleEnterExit.byteSeatId = byteSeatId]
               IN  ResetInterpolation(S3, p)
          ELSE S1

\* --------------------------------------------------------- EnterVehicle
EnterVehicle(S, p, pVehicle, byteSeatId) ==
    IF ~IsSpawned(S, p) \/ pVehicle = NULL THEN S
    ELSE
      LET S1 == IF ~IsStreamedIn(S, pVehicle) /\ IsLocalPlayer(p)
                THEN ForceStreamIn(S, pVehicle) ELSE S
      IN  IF IsInVehicle(S1, p) THEN S1
          ELSE IF IsStreamedIn(S1, pVehicle) /\ GetDoorLockState(S1, pVehicle) = 0
          THEN LET S2 == SetPrimaryTask(S1, p, "getin")
                   S3 == [S2 EXCEPT !.pl[p].m_vehicleEnterExit.bEntering = TRUE,
                                    !.pl[p].m_vehicleEnterExit.pVehicle = pVehicle,
                                    !.pl[p].m_vehicleEnterExit.byteSeatId = byteSeatId]
               IN  ResetInterpolation(S3, p)
          ELSE S1

\* ---------------------------------------------------------- ExitVehicle
\* bDamaged: (int)GetHealth() < 0 || GetPetrolTankHealth() < 0.0f as read
\* from the vehicle; bCarDead: Scripting::IsCarDead. With m_pVehicle NULL
\* lines 2128-2138 dereference a NULL pointer: the process faults (bFault)
\* or the reads return whatever lies there (bDamaged, bCarDead arbitrary).
ExitVehicle(S, p, bDamaged, bCarDead, bFault) ==
    IF ~IsSpawned(S, p) THEN S
    ELSE
      LET pV == S.pl[p].m_pVehicle
          S1 == IF pV # NULL
                THEN [SetPrimaryTask(S, p, "getout")
                         EXCEPT !.pl[p].m_vehicleEnterExit.bExiting = TRUE]
                ELSE IF HasVehicleEnterExit(S, p) THEN ClearVehicleEntryTask(S, p) ELSE S
      IN  IF pV = NULL /\ bFault THEN Crash(S1)
          ELSE
            LET S2 == IF bDamaged
                      THEN IF bCarDead
                           THEN [Send(S1, <<"VehicleDied", pV>>)
                                    EXCEPT !.pl[p].m_bVehicleDeathCheck = FALSE]
                           ELSE [S1 EXCEPT !.pl[p].m_bVehicleDeathCheck = TRUE]
                      ELSE S1
                S3 == IF pV # NULL THEN SetDriver(S2, pV, NULL) ELSE S2
            IN  ResetInterpolation(S3, p)

\* ---------------------------------------------------- RemoveFromVehicle
RemoveFromVehicle(S, p) ==
    IF IsSpawned(S, p) /\ S.pl[p].m_pVehicle # NULL
    THEN LET S1 == InternalRemoveFromVehicle(S, p)
             S2 == SetOccupant(S1, S.pl[p].m_pVehicle,
                               S.pl[p].m_vehicleEnterExit.byteSeatId, NULL)
             S3 == [S2 EXCEPT !.pl[p].m_pVehicle = NULL,
                              !.pl[p].m_byteVehicleSeatId = 0]
         IN  ResetVehicleEnterExit(S3, p)
    ELSE S

\* --------------------------------------------------------- PutInVehicle
PutInVehicle(S, p, pVehicle, byteSeatId) ==
    IF ~IsSpawned(S, p) \/ pVehicle = NULL THEN S
    ELSE IF ~IsStreamedIn(S, pVehicle) /\ ~IsLocalPlayer(p) THEN S
    ELSE
      LET S1 == IF ~IsStreamedIn(S, pVehicle) THEN ForceStreamIn(S, pVehicle) ELSE S
          S2 == IF IsInVehicle(S1, p) THEN RemoveFromVehicle(S1, p) ELSE S1
          S3 == IF IsStreamedIn(S2, pVehicle)
                THEN InternalPutInVehicle(S2, p, pVehicle, byteSeatId) ELSE S2
          S4 == ResetVehicleEnterExit(S3, p)
          S5 == [S4 EXCEPT !.pl[p].m_pVehicle = pVehicle,
                           !.pl[p].m_byteVehicleSeatId = byteSeatId]
          S6 == SetOccupant(SetDamageable(S5, pVehicle, TRUE), pVehicle, byteSeatId, p)
      IN  IF IsNetworkVehicle(pVehicle)
          THEN Send(S6, <<"EntryComplete", p, pVehicle, byteSeatId>>)
          ELSE S6

\* ---------------------------------------------------- GetClosestVehicle
GetDistance(S, p, v) == Abs(GetPosition(S, p) - S.veh[v].pos)

\* the loop over the vehicles that compares every distance with the cap
\* (line 1943, fCurrent = fDistance, left out)
RECURSIVE ScanVehiclesKeepsCap(_, _, _, _, _)
ScanVehiclesKeepsCap(S, p, v, fCurrent, pClosestVehicle) ==
    IF v > NumVehicles THEN pClosestVehicle
    ELSE IF IsStreamedIn(S, v) /\ GetDistance(S, p, v) < fCurrent
    THEN ScanVehiclesKeepsCap(S, p, v + 1, fCurrent, v)
    ELSE ScanVehiclesKeepsCap(S, p, v + 1, fCurrent, pClosestVehicle)

\* the loop over the streamed-in vehicles, in list order
RECURSIVE ScanVehicles(_, _, _, _, _)
ScanVehicles(S, p, v, fCurrent, pClosestVehicle) ==
    IF v > NumVehicles THEN pClosestVehicle
    ELSE IF IsStreamedIn(S, v) /\ GetDistance(S, p, v) < fCurrent
    THEN ScanVehicles(S, p, v + 1, GetDistance(S, p, v), v)
    ELSE ScanVehicles(S, p, v + 1, fCurrent, pClosestVehicle)

\* the loop over the passenger seats: first free seat id, 0 when none
RECURSIVE ScanSeats(_, _, _)
ScanSeats(S, v, i) ==
    IF i >= MaxPassengers THEN 0
    ELSE IF GetPassenger(S, v, i) = NULL THEN i + 1
    ELSE ScanSeats(S, v, i + 1)

\* GetClosestVehicle that finds a free passenger seat but leaves byteSeatId
\* at the driver seat
GetClosestVehicleDriverSeat(S, p, bPassenger) ==
    LET fail == [bFound |-> FALSE, pVehicle |-> NULL, byteSeatId |-> 0]
    IN  IF ~IsSpawned(S, p) THEN fail
        ELSE
          LET pClosestVehicle == ScanVehicles(S, p, 1, MaxEnterDistance * Scale, NULL)
          IN  IF pClosestVehicle = NULL THEN fail
              ELSE IF bPassenger /\ ScanSeats(S, pClosestVehicle, 0) = 0 THEN fail
              ELSE [bFound |-> TRUE, pVehicle |-> pClosestVehicle, byteSeatId |-> 0]

GetClosestVehicle(S, p, bPassenger) ==
    LET fail == [bFound |-> FALSE, pVehicle |-> NULL, byteSeatId |-> 0]
    IN  IF ~IsSpawned(S, p) THEN fail
        ELSE
          LET pClosestVehicle == ScanVehicles(S, p, 1, MaxEnterDistance * Scale, NULL)
          IN  IF pClosestVehicle = NULL THEN fail
              ELSE IF bPassenger
              THEN LET byteTestSeatId == ScanSeats(S, pClosestVehicle, 0)
                   IN  IF byteTestSeatId = 0 THEN fail
                       ELSE [bFound |-> TRUE, pVehicle |-> pClosestVehicle,
                             byteSeatId |-> byteTestSeatId]
              ELSE [bFound |-> TRUE, pVehicle |-> pClosestVehicle, byteSeatId |-> 0]

\* CheckVehicleEntryExitKey without the bRequesting test of line 2298 on
\* the entry branch
CheckVehicleEntryExitKeyNoRequestGuard(S, p, bInput, bDamaged, bCarDead) ==
    IF ~(IsSpawned(S, p) /\ bInput) THEN S
    ELSE
      LET current == S.pl[p].m_currentControlState
          previous == S.pl[p].m_previousControlState
          vee == S.pl[p].m_vehicleEnterExit
      IN
      IF current.enterExit /\ ~previous.enterExit
      THEN
        IF ~vee.bRequesting /\ IsInVehicle(S, p) /\ ~vee.bExiting
        THEN IF IsNetworkVehicle(S.pl[p].m_pVehicle)
             THEN [Send(S, <<"ExitRequest", p, S.pl[p].m_pVehicle>>)
                      EXCEPT !.pl[p].m_vehicleEnterExit.bRequesting = TRUE]
             ELSE ExitVehicle(S, p, bDamaged, bCarDead, FALSE)
        ELSE S
      ELSE
        LET bEnterExitVehicleKeyReleased == previous.enterExit /\ ~current.enterExit
            bHornKeyReleased == previous.horn /\ ~current.horn
        IN
        IF (bEnterExitVehicleKeyReleased \/ bHornKeyReleased)
              /\ ~IsInVehicle(S, p) /\ ~vee.bEntering
        THEN
          LET r == GetClosestVehicle(S, p, bHornKeyReleased)
          IN  IF r.bFound /\ r.pVehicle # NULL /\ IsStreamedIn(S, r.pVehicle)
              THEN IF GetDoorLockState(S, r.pVehicle) > 0
                   THEN [S EXCEPT !.pl[p].m_vehicleEnterExit.bRequesting = FALSE,
                                  !.pl[p].m_vehicleEnterExit.bEntering = FALSE]
                   ELSE IF IsNetworkVehicle(r.pVehicle)
                   THEN [Send(S, <<"EntryRequest", p, r.pVehicle, r.byteSeatId>>)
                            EXCEPT !.pl[p].m_vehicleEnterExit.bRequesting = TRUE]
                   ELSE EnterVehicle(S, p, r.pVehicle, r.byteSeatId)
              ELSE S
        ELSE S

\* CheckVehicleEntryExitKey whose exit branch calls ExitVehicle for every
\* vehicle, without the request of lines 2252-2261
CheckVehicleEntryExitKeyExitsAtOnce(S, p, bInput, bDamaged, bCarDead) ==
    IF ~(IsSpawned(S, p) /\ bInput) THEN S
    ELSE
      LET current == S.pl[p].m_currentControlState
          previous == S.pl[p].m_previousControlState
          vee == S.pl[p].m_vehicleEnterExit
      IN
      IF current.enterExit /\ ~previous.enterExit
      THEN
        IF ~vee.bRequesting /\ IsInVehicle(S, p) /\ ~vee.bExiting
        THEN ExitVehicle(S, p, bDamaged, bCarDead, FALSE)
        ELSE S
      ELSE
        LET bEnterExitVehicleKeyReleased == previous.enterExit /\ ~current.enterExit
            bHornKeyReleased == previous.horn /\ ~current.horn
        IN
        IF (bEnterExitVehicleKeyReleased \/ bHornKeyReleased)
              /\ ~vee.bRequesting /\ ~IsInVehicle(S, p) /\ ~vee.bEntering
        THEN
          LET r == GetClosestVehicle(S, p, bHornKeyReleased)
          IN  IF r.bFound /\ r.pVehicle # NULL /\ IsStreamedIn(S, r.pVehicle)
              THEN IF GetDoorLockState(S, r.pVehicle) > 0
                   THEN [S EXCEPT !.pl[p].m_vehicleEnterExit.bRequesting = FALSE,
                                  !.pl[p].m_vehicleEnterExit.bEntering = FALSE]
                   ELSE IF IsNetworkVehicle(r.pVehicle)
                   THEN [Send(S, <<"EntryRequest", p, r.pVehicle, r.byteSeatId>>)
                            EXCEPT !.pl[p].m_vehicleEnterExit.bRequesting = TRUE]
                   ELSE EnterVehicle(S, p, r.pVehicle, r.byteSeatId)
              ELSE S
        ELSE S

\* --------------------------------------------- CheckVehicleEntryExitKey
\* bInput: CGame::GetInputState() && !m_bControlsDisabled.
CheckVehicleEntryExitKey(S, p, bInput, bDamaged, bCarDead) ==
    IF ~(IsSpawned(S, p) /\ bInput) THEN S
    ELSE
      LET current == S.pl[p].m_currentControlState
          previous == S.pl[p].m_previousControlState
          vee == S.pl[p].m_vehicleEnterExit
      IN
      IF current.enterExit /\ ~previous.enterExit
      THEN
        IF ~vee.bRequesting /\ IsInVehicle(S, p) /\ ~vee.bExiting
        THEN IF IsNetworkVehicle(S.pl[p].m_pVehicle)
             THEN [Send(S, <<"ExitRequest", p, S.pl[p].m_pVehicle>>)
                      EXCEPT !.pl[p].m_vehicleEnterExit.bRequesting = TRUE]
             ELSE ExitVehicle(S, p, bDamaged, bCarDead, FALSE)
        ELSE S
      ELSE
        LET bEnterExitVehicleKeyReleased == previous.enterExit /\ ~current.enterExit
            bHornKeyReleased == previous.horn /\ ~current.horn
        IN
        IF (bEnterExitVehicleKeyReleased \/ bHornKeyReleased)
              /\ ~vee.bRequesting /\ ~IsInVehicle(S, p) /\ ~vee.bEntering
        THEN
          LET r == GetClosestVehicle(S, p, bHornKeyReleased)
          IN  IF r.bFound /\ r.pVehicle # NULL /\ IsStreamedIn(S, r.pVehicle)
              THEN IF GetDoorLockState(S, r.pVehicle) > 0
                   THEN [S EXCEPT !.pl[p].m_vehicleEnterExit.bRequesting = FALSE,
                                  !.pl[p].m_vehicleEnterExit.bEntering = FALSE]
                   ELSE IF IsNetworkVehicle(r.pVehicle)
                   THEN [Send(S, <<"EntryRequest", p, r.pVehicle, r.byteSeatId>>)
                            EXCEPT !.pl[p].m_vehicleEnterExit.bRequesting = TRUE]
                   ELSE EnterVehicle(S, p, r.pVehicle, r.byteSeatId)
              ELSE S
        ELSE S

\* entry completion that sets the player's vehicle and seat but does not
\* claim the occupant slot (line 2382 left out)
ProcessEntryCompleteNoOccupant(S, p) ==
    LET vee == S.pl[p].m_vehicleEnterExit
        pV == vee.pVehicle
    IN  IF pV = NULL THEN Crash(S)
        ELSE
          LET S1 == [S EXCEPT !.pl[p].m_vehicleEnterExit.bEntering = FALSE,
                              !.pl[p].m_pVehicle = pV,
                              !.pl[p].m_byteVehicleSeatId = vee.byteSeatId,
                              !.pl[p].m_vehicleEnterExit.pVehicle = NULL]
              S2 == SetDamageable(S1, pV, TRUE)
          IN  IF IsNetworkVehicle(pV)
              THEN Send(S2, <<"EntryComplete", p, pV, vee.byteSeatId>>)
              ELSE S2

\* ---------------------------------------------- ProcessVehicleEntryExit
\* lines 2372-2402: entry completion
ProcessEntryComplete(S, p) ==
    LET vee == S.pl[p].m_vehicleEnterExit
        pV == vee.pVehicle
    IN  IF pV = NULL THEN Crash(S)
        ELSE
          LET S1 == [S EXCEPT !.pl[p].m_vehicleEnterExit.bEntering = FALSE,
                              !.pl[p].m_pVehicle = pV,
                              !.pl[p].m_byteVehicleSeatId = vee.byteSeatId,
                              !.pl[p].m_vehicleEnterExit.pVehicle = NULL]
              S2 == SetOccupant(SetDamageable(S1, pV, TRUE), pV, vee.byteSeatId, p)
          IN  IF IsNetworkVehicle(pV)
              THEN Send(S2, <<"EntryComplete", p, pV, vee.byteSeatId>>)
              ELSE S2

\* the on-foot entry branch that cancels the entry of a remote player the way
\* it cancels that of the local player, where line 2442 restarts it
ProcessEntryOnFootCancelRemote(S, p) ==
    LET vee == S.pl[p].m_vehicleEnterExit
        pV == vee.pVehicle
    IN  IF vee.bEntering
        THEN IF ~IsGettingInToAVehicle(S, p)
             THEN IF pV = NULL THEN Crash(S)
                  ELSE
                    LET S1 == IF IsNetworkVehicle(pV)
                              THEN Send(SetDamageable(S, pV, FALSE),
                                        <<"EntryCancelled", p, pV,
                                          S.pl[p].m_byteVehicleSeatId>>)
                              ELSE S
                    IN  [S1 EXCEPT !.pl[p].m_vehicleEnterExit.bEntering = FALSE,
                                   !.pl[p].m_vehicleEnterExit.pVehicle = NULL]
             ELSE S
        ELSE IF IsGettingInToAVehicle(S, p) THEN ClearVehicleEntryTask(S, p) ELSE S

\* lines 2406-2460: the entry task has ended, or runs, outside a vehicle
ProcessEntryOnFoot(S, p) ==
    LET vee == S.pl[p].m_vehicleEnterExit
        pV == vee.pVehicle
    IN  IF vee.bEntering
        THEN IF ~IsGettingInToAVehicle(S, p)
             THEN IF IsLocalPlayer(p)
                  THEN IF pV = NULL THEN Crash(S)
                       ELSE
                         LET S1 == IF IsNetworkVehicle(pV)
                                   THEN Send(SetDamageable(S, pV, FALSE),
                                             <<"EntryCancelled", p, pV,
                                               S.pl[p].m_byteVehicleSeatId>>)
                                   ELSE S
                         IN  [S1 EXCEPT !.pl[p].m_vehicleEnterExit.bEntering = FALSE,
                                        !.pl[p].m_vehicleEnterExit.pVehicle = NULL]
                  ELSE EnterVehicle(S, p, pV, vee.byteSeatId)
             ELSE S
        ELSE IF IsGettingInToAVehicle(S, p) THEN ClearVehicleEntryTask(S, p) ELSE S

\* leaving the vehicle record without releasing the occupant slot
LeaveVehicleRecordKeepSlot(S, p) ==
    LET pV == S.pl[p].m_pVehicle
        S1 == SetDamageable(S, pV, FALSE)
    IN  [S1 EXCEPT !.pl[p].m_pVehicle = NULL, !.pl[p].m_byteVehicleSeatId = 0]

\* lines 2479-2484 and 2520-2524: leave the vehicle record
LeaveVehicleRecord(S, p) ==
    LET pV == S.pl[p].m_pVehicle
        S1 == SetDamageable(SetOccupant(S, pV, S.pl[p].m_byteVehicleSeatId, NULL), pV, FALSE)
    IN  [S1 EXCEPT !.pl[p].m_pVehicle = NULL, !.pl[p].m_byteVehicleSeatId = 0]

\* the on-foot exit branch that sends ExitComplete for every vehicle,
\* without the IsNetworkVehicle test of line 2469
ProcessExitOnFootAlwaysNotifies(S, p) ==
    LET pV == S.pl[p].m_pVehicle
    IN  IF S.pl[p].m_vehicleEnterExit.bExiting
        THEN IF ~IsGettingOutOfAVehicle(S, p)
             THEN IF pV = NULL THEN Crash(S)
                  ELSE
                    LET S1 == Send(S, <<"ExitComplete", p, pV>>)
                        S2 == [S1 EXCEPT !.pl[p].m_vehicleEnterExit.bExiting = FALSE]
                    IN  LeaveVehicleRecord(S2, p)
             ELSE S
        ELSE
          LET S1 == IF IsGettingOutOfAVehicle(S, p) THEN ClearVehicleExitTask(S, p) ELSE S
          IN  IF pV # NULL
              THEN LET S2 == IF IsNetworkVehicle(pV)
                             THEN Send(S1, <<"ExitForceful", p, pV>>) ELSE S1
                   IN  LeaveVehicleRecord(S2, p)
              ELSE S1

\* lines 2462-2531: exit completion, removal of a stray exit task, forced exit
ProcessExitOnFoot(S, p) ==
    LET pV == S.pl[p].m_pVehicle
    IN  IF S.pl[p].m_vehicleEnterExit.bExiting
        THEN IF ~IsGettingOutOfAVehicle(S, p)
             THEN IF pV = NULL THEN Crash(S)
                  ELSE
                    LET S1 == IF IsNetworkVehicle(pV)
                              THEN Send(S, <<"ExitComplete", p, pV>>) ELSE S
                        S2 == [S1 EXCEPT !.pl[p].m_vehicleEnterExit.bExiting = FALSE]
                    IN  LeaveVehicleRecord(S2, p)
             ELSE S
        ELSE
          LET S1 == IF IsGettingOutOfAVehicle(S, p) THEN ClearVehicleExitTask(S, p) ELSE S
          IN  IF pV # NULL
              THEN LET S2 == IF IsNetworkVehicle(pV)
                             THEN Send(S1, <<"ExitForceful", p, pV>>) ELSE S1
                   IN  LeaveVehicleRecord(S2, p)
              ELSE S1

ProcessVehicleEntryExit(S, p) ==
    IF ~IsSpawned(S, p) THEN S
    ELSE IF InternalIsInVehicle(S, p)
    THEN IF S.pl[p].m_vehicleEnterExit.bEntering /\ ~IsGettingInToAVehicle(S, p)
         THEN ProcessEntryComplete(S, p)
         ELSE S
    ELSE LET S1 == ProcessEntryOnFoot(S, p)
         IN  IF S1.crashed THEN S1 ELSE ProcessExitOnFoot(S1, p)

\* --------------------------------------------------------- GetKillInfo
GetLastDamageEntity(S, p) == IF IsSpawned(S, p) THEN S.ped[p].lastDamage ELSE NoEntity
GetCurrentWeapon(S, p) == IF IsSpawned(S, p) THEN S.ped[p].weapon ELSE 0
IsAPassenger(S, p) == S.pl[p].m_pVehicle # NULL /\ S.pl[p].m_byteVehicleSeatId # 0
GetVehicle(S, p) == S.pl[p].m_pVehicle

NoKiller ==
    [playerId |-> INVALID_ENTITY_ID, vehicleId |-> INVALID_ENTITY_ID,
     weaponId |-> INVALID_ENTITY_ID]

\* lines 539-573: the loop over the players, in increasing id
RECURSIVE ScanKillers(_, _, _)
ScanKillers(S, p, i) ==
    IF i > NumPlayers THEN NoKiller
    ELSE IF ~IsSpawned(S, i) THEN ScanKillers(S, p, i + 1)
    ELSE IF GetLastDamageEntity(S, p) = PedEntity(i)
    THEN [NoKiller EXCEPT !.playerId = i, !.weaponId = GetCurrentWeapon(S, i)]
    ELSE IF IsInVehicle(S, i) /\ ~IsAPassenger(S, i)
              /\ GetLastDamageEntity(S, p) = VehicleObject(GetVehicle(S, i))
    THEN [playerId |-> i, vehicleId |-> i, weaponId |-> GetCurrentWeapon(S, i)]
    ELSE ScanKillers(S, p, i + 1)

\* lines 579-591: the loop over the streamed-in vehicles, in list order
RECURSIVE ScanKillerVehicles(_, _, _)
ScanKillerVehicles(S, p, v) ==
    IF v > NumVehicles THEN INVALID_ENTITY_ID
    ELSE IF IsStreamedIn(S, v) /\ GetLastDamageEntity(S, p) = VehicleEntity(v) THEN v
    ELSE ScanKillerVehicles(S, p, v + 1)

\* bOk is the value returned; the three ids are written by a spawned
\* player only
GetKillInfo(S, p) ==
    IF ~IsSpawned(S, p) THEN [bOk |-> FALSE, info |-> NoKiller]
    ELSE
      LET r == ScanKillers(S, p, 1)
      IN  IF r.playerId = INVALID_ENTITY_ID /\ r.vehicleId = INVALID_ENTITY_ID
          THEN [bOk |-> TRUE, info |-> [r EXCEPT !.vehicleId = ScanKillerVehicles(S, p, 1)]]
          ELSE [bOk |-> TRUE, info |-> r]

\* ------------------------------------------------------------------ Kill
Kill(S, p, bInstantly) ==
    IF IsSpawned(S, p) /\ ~IsDead(S, p)
    THEN LET S1 == IF bInstantly THEN S ELSE [S EXCEPT !.ped[p].dieTask = TRUE]
             S2 == SetArmour(SetHealth(S1, p, 0), p, 0)
             S3 == SetControlState(S2, p, ZeroControlState)
         IN  ResetInterpolation(ResetVehicleEnterExit(S3, p), p)
    ELSE S

\* ------------------------------------------- Create, StreamIn, StreamOut
\* bAllocated: a free player info index and a ped pool slot were found
CreateSucceeds(S, p, bAllocated) ==
    ~(IsSpawned(S, p) \/ IsLocalPlayer(p)) /\ bAllocated

Create(S, p, bAllocated) ==
    IF ~CreateSucceeds(S, p, bAllocated) THEN S
    ELSE LET S1 == [S EXCEPT !.ped[p] = NoPed, !.pl[p].m_bSpawned = TRUE]
         IN  ResetInterpolation(SetHealth(S1, p, SpawnHealth), p)

StreamIn(S, p, bAllocated) ==
    IF CreateSucceeds(S, p, bAllocated)
    THEN LET S1 == Create(S, p, bAllocated)
             S2 == SetPosition(S1, p, S.pl[p].m_vecPos, TRUE)
         IN  SetHealth(S2, p, S.pl[p].m_uiHealth)
    ELSE S

Destroy(S, p) == [S EXCEPT !.ped[p] = NoPed, !.pl[p].m_bSpawned = FALSE]

StreamOut(S, p) ==
    LET S1 == [S EXCEPT !.pl[p].m_vecPos = GetPosition(S, p),
                        !.pl[p].m_uiHealth = GetHealth(S, p)]
    IN  Destroy(S1, p)

\* ================================================================ actions
TraceZero == [on |-> FALSE, v |-> 0, written |-> FALSE, aon |-> FALSE, av |-> 0, awritten |-> FALSE]

Idle == pc = "idle" /\ ~crashed

\* a handler or a step of Pulse starts with nothing sent yet
Begin == [World EXCEPT !.out = <<>>]

Frame == UNCHANGED <<inputOn, clock, pc, cur, actor>>

\* ---- calls made by the RPC handlers and the scripting interface
CallSetHealth(p, v) ==
    /\ Idle
    /\ Commit(SetHealth(Begin, p, v))
    /\ trace' = [trace EXCEPT ![p].on = FALSE, ![p].v = 0, ![p].written = FALSE]
    /\ Frame

CallLockHealth(p, v) ==
    /\ Idle
    /\ Commit(LockHealth(Begin, p, v))
    /\ trace' = [trace EXCEPT ![p].on = IsSpawned(World, p), ![p].v = v, ![p].written = FALSE]
    /\ Frame

CallSetArmour(p, v) ==
    /\ Idle
    /\ Commit(SetArmour(Begin, p, v))
    /\ trace' = [trace EXCEPT ![p].aon = FALSE, ![p].av = 0, ![p].awritten = FALSE]
    /\ Frame

CallLockArmour(p, v) ==
    /\ Idle
    /\ Commit(LockArmour(Begin, p, v))
    /\ trace' = [trace EXCEPT ![p].aon = IsSpawned(World, p), ![p].av = v, ![p].awritten = FALSE]
    /\ Frame

CallKill(p, bInstantly) ==
    /\ Idle
    /\ ~bInstantly => (IsSpawned(World, p) /\ ~IsDead(World, p))   \* read on this path only
    /\ Commit(Kill(Begin, p, bInstantly))
    /\ trace' = [trace EXCEPT ![p] = TraceZero]
    /\ Frame

CallClearDieTask(p) ==
    /\ Idle
    /\ IsDying(World, p)
    /\ Commit(ClearDieTask(Begin, p))
    /\ UNCHANGED trace
    /\ Frame

CallStreamIn(p, bAllocated) ==
    /\ Idle
    /\ p # LocalPlayer
    /\ ~bAllocated => ~IsSpawned(World, p)                         \* read on this path only
    /\ Commit(StreamIn(Begin, p, bAllocated))
    /\ trace' = [trace EXCEPT ![p] = TraceZero]
    /\ Frame

CallStreamOut(p) ==
    /\ Idle
    /\ p # LocalPlayer
    /\ IsSpawned(World, p)
    /\ Commit(StreamOut(Begin, p))
    /\ trace' = [trace EXCEPT ![p] = TraceZero]
    /\ Frame

CallEnterVehicle(p, v, seat) ==
    /\ Idle
    /\ Commit(EnterVehicle(Begin, p, v, seat))
    /\ UNCHANGED trace
    /\ Frame

\* the vehicle is read by a spawned player only, IsCarDead for a damaged
\* vehicle only, and the fault needs the NULL m_pVehicle
CallExitVehicle(p, bDamaged, bCarDead, bFault) ==
    /\ Idle
    /\ bDamaged => IsSpawned(World, p)
    /\ bCarDead => bDamaged
    /\ bFault => (IsSpawned(World, p) /\ players[p].m_pVehicle = NULL)
    /\ Commit(ExitVehicle(Begin, p, bDamaged, bCarDead, bFault))
    /\ UNCHANGED trace
    /\ Frame

CallPutInVehicle(p, v, seat) ==
    /\ Idle
    /\ Commit(PutInVehicle(Begin, p, v, seat))
    /\ UNCHANGED trace
    /\ Frame

CallRemoveFromVehicle(p) ==
    /\ Idle
    /\ Commit(RemoveFromVehicle(Begin, p))
    /\ UNCHANGED trace
    /\ Frame

CallResetVehicleEnterExit(p) ==
    /\ Idle
    /\ Commit(ResetVehicleEnterExit(Begin, p))
    /\ UNCHANGED trace
    /\ Frame

CallSetControlState(p, controlState) ==
    /\ Idle
    /\ Commit(SetControlState(Begin, p, controlState))
    /\ UNCHANGED trace
    /\ Frame

\* the values handed back to the caller are recorded where the RPCs are
CallGetKillInfo(p) ==
    /\ Idle
    /\ LET r == GetKillInfo(World, p)
       IN  out' = <<<<"KillInfo", r.bOk, r.info.playerId, r.info.vehicleId, r.info.weaponId>>>>
    /\ UNCHANGED <<players, peds, vehicles, crashed, trace>>
    /\ Frame

CallRemoveTargetPosition(p) ==
    /\ Idle
    /\ Commit(RemoveTargetPosition(Begin, p))
    /\ UNCHANGED trace
    /\ Frame

CallResetInterpolation(p) ==
    /\ Idle
    /\ Commit(ResetInterpolation(Begin, p))
    /\ UNCHANGED trace
    /\ Frame

\* the target is given in world units; the clock is read once
CallSetTargetPosition(p, vecPosition, ulDelay) ==
    /\ Idle
    /\ Commit(SetTargetPosition(Begin, p, vecPosition * Scale, ulDelay, clock))
    /\ UNCHANGED trace
    /\ Frame

\* ---- the simulation and the other collaborators, between handlers
SimWriteHealth(p, w) ==
    /\ Idle
    /\ IsSpawned(World, p)
    /\ peds[p].health # w
    /\ peds' = [peds EXCEPT ![p].health = w]
    /\ trace' = [trace EXCEPT ![p].written = trace[p].on]
    /\ out' = <<>>
    /\ UNCHANGED <<players, vehicles, crashed>>
    /\ Frame

SimWriteArmour(p, w) ==
    /\ Idle
    /\ IsSpawned(World, p)
    /\ peds[p].armour # w
    /\ peds' = [peds EXCEPT ![p].armour = w]
    /\ trace' = [trace EXCEPT ![p].awritten = trace[p].aon]
    /\ out' = <<>>
    /\ UNCHANGED <<players, vehicles, crashed>>
    /\ Frame

\* the ped of a running entry task reaches the seat
SimSeatPed(p) ==
    /\ Idle
    /\ IsSpawned(World, p)
    /\ peds[p].task = "getin"
    /\ ~peds[p].inVehicle
    /\ peds' = [peds EXCEPT ![p].inVehicle = TRUE]
    /\ out' = <<>>
    /\ UNCHANGED <<players, vehicles, crashed, trace>>
    /\ Frame

\* the primary task finishes or is aborted
SimTaskEnd(p) ==
    /\ Idle
    /\ IsSpawned(World, p)
    /\ peds[p].task # "none"
    /\ peds' = [peds EXCEPT ![p].task = "none"]
    /\ out' = <<>>
    /\ UNCHANGED <<players, vehicles, crashed, trace>>
    /\ Frame

\* the ped gets out of, or is thrown out of, its vehicle
SimLeaveVehicle(p) ==
    /\ Idle
    /\ IsSpawned(World, p)
    /\ peds[p].inVehicle
    /\ peds' = [peds EXCEPT ![p].inVehicle = FALSE]
    /\ out' = <<>>
    /\ UNCHANGED <<players, vehicles, crashed, trace>>
    /\ Frame

\* the simulation starts an entry or exit task of its own
SimStartTask(p, kind) ==
    /\ Idle
    /\ IsSpawned(World, p)
    /\ peds[p].task = "none"
    /\ (kind = "getout") = peds[p].inVehicle
    /\ peds' = [peds EXCEPT ![p].task = kind]
    /\ out' = <<>>
    /\ UNCHANGED <<players, vehicles, crashed, trace>>
    /\ Frame

\* an entity of the game damages the ped: a spawned player's ped or the
\* game vehicle of a streamed-in vehicle
SimDamage(p, entity) ==
    /\ Idle
    /\ IsSpawned(World, p)
    /\ \/ \E q \in Players : IsSpawned(World, q) /\ entity = PedEntity(q)
       \/ \E v \in Vehicles : IsStreamedIn(World, v) /\ entity = VehicleEntity(v)
    /\ peds[p].lastDamage # entity
    /\ peds' = [peds EXCEPT ![p].lastDamage = entity]
    /\ out' = <<>>
    /\ UNCHANGED <<players, vehicles, crashed, trace>>
    /\ Frame

\* the ped switches to another weapon
SimSwitchWeapon(p, w) ==
    /\ Idle
    /\ IsSpawned(World, p)
    /\ peds[p].weapon # w
    /\ peds' = [peds EXCEPT ![p].weapon = w]
    /\ out' = <<>>
    /\ UNCHANGED <<players, vehicles, crashed, trace>>
    /\ Frame

SetInputState(b) ==
    /\ Idle
    /\ inputOn # b
    /\ inputOn' = b
    /\ out' = <<>>
    /\ UNCHANGED <<players, peds, vehicles, crashed, trace, clock, pc, cur, actor>>

\* the lock of a vehicle within reach of the key check changes
SetDoorLockState(v, l) ==
    /\ Idle
    /\ vehicles[v].pos < MaxEnterDistance * Scale
    /\ vehicles[v].doorLockState # l
    /\ vehicles' = [vehicles EXCEPT ![v].doorLockState = l]
    /\ out' = <<>>
    /\ UNCHANGED <<players, peds, crashed, trace>>
    /\ Frame

\* the streamer streams a vehicle out of, or back into, the game
SetStreamedIn(v, b) ==
    /\ Idle
    /\ vehicles[v].streamedIn # b
    /\ vehicles' = [vehicles EXCEPT ![v].streamedIn = b]
    /\ out' = <<>>
    /\ UNCHANGED <<players, peds, crashed, trace>>
    /\ Frame

\* SharedUtility::GetTime() moves on
Tick ==
    /\ Idle
    /\ clock < MaxClock
    /\ clock' = clock + 1
    /\ out' = <<>>
    /\ UNCHANGED <<players, peds, vehicles, crashed, trace, inputOn, pc, cur, actor>>

\* ---- Pulse, step by step (lines 1696-1761)
\* lines 1700-1710: sample the pad of the local player
PulseBegin(p, sample) ==
    /\ Idle
    /\ IsSpawned(World, p)
    /\ ~IsLocalPlayer(p) => sample = ZeroControlState               \* no pad is read
    /\ Commit(IF IsLocalPlayer(p)
              THEN [Begin EXCEPT !.pl[p].m_previousControlState =
                                      players[p].m_currentControlState,
                                 !.pl[p].m_currentControlState = sample]
              ELSE Begin)
    /\ pc' = "locks"
    /\ cur' = p
    /\ UNCHANGED <<inputOn, clock, trace, actor>>

\* the lock step without the health re-application of lines 1713-1714
PulseLocksStepArmourOnly(S, p) ==
    IF S.pl[p].m_bArmourLocked
    THEN SetArmour(S, p, S.pl[p].m_uiLockedArmour) ELSE S

\* lines 1712-1718: re-apply locked health and armour
PulseLocksStep(S, p) ==
    LET S1 == IF S.pl[p].m_bHealthLocked
              THEN SetHealth(S, p, S.pl[p].m_uiLockedHealth) ELSE S
    IN  IF S1.pl[p].m_bArmourLocked
        THEN SetArmour(S1, p, S1.pl[p].m_uiLockedArmour) ELSE S1

PulseLocks ==
    /\ pc = "locks" /\ ~crashed
    /\ Commit(PulseLocksStep(Begin, cur))
    /\ pc' = "process"
    /\ UNCHANGED <<inputOn, clock, cur, trace, actor>>

\* line 1721
PulseProcess ==
    /\ pc = "process" /\ ~crashed
    /\ Commit(ProcessVehicleEntryExit(Begin, cur))
    /\ pc' = IF IsLocalPlayer(cur) THEN "checkkey" ELSE "interp"
    /\ UNCHANGED <<inputOn, clock, cur, trace, actor>>

\* lines 2238-2266: the key check calls ExitVehicle itself
KeyExitsDirectly(p) ==
    /\ IsSpawned(World, p) /\ inputOn
    /\ players[p].m_currentControlState.enterExit
    /\ ~players[p].m_previousControlState.enterExit
    /\ ~players[p].m_vehicleEnterExit.bRequesting
    /\ IsInVehicle(World, p)
    /\ ~players[p].m_vehicleEnterExit.bExiting
    /\ ~IsNetworkVehicle(players[p].m_pVehicle)

\* line 1727; the vehicle's damage is read by ExitVehicle only
PulseCheckKey(bDamaged, bCarDead) ==
    /\ pc = "checkkey" /\ ~crashed
    /\ bDamaged => KeyExitsDirectly(cur)
    /\ bCarDead => bDamaged
    /\ Commit(CheckVehicleEntryExitKey(Begin, cur, inputOn, bDamaged, bCarDead))
    /\ pc' = "deathcheck"
    /\ UNCHANGED <<inputOn, clock, cur, trace, actor>>

\* lines 1729-1749
VehicleDeathCheck(S, p, bCarDead) ==
    IF ~S.pl[p].m_bVehicleDeathCheck THEN S
    ELSE IF S.pl[p].m_pVehicle # NULL
    THEN IF GetDriver(S, S.pl[p].m_pVehicle) = NULL
         THEN IF bCarDead
              THEN [Send(S, <<"VehicleDied", S.pl[p].m_pVehicle>>)
                       EXCEPT !.pl[p].m_bVehicleDeathCheck = FALSE]
              ELSE S
         ELSE [S EXCEPT !.pl[p].m_bVehicleDeathCheck = FALSE]
    ELSE [S EXCEPT !.pl[p].m_bVehicleDeathCheck = FALSE]

PulseDeathCheck(bCarDead) ==
    /\ pc = "deathcheck" /\ ~crashed
    /\ bCarDead => (/\ players[cur].m_bVehicleDeathCheck            \* read on this path only
                    /\ players[cur].m_pVehicle # NULL
                    /\ GetDriver(World, players[cur].m_pVehicle) = NULL)
    /\ Commit(VehicleDeathCheck(Begin, cur, bCarDead))
    /\ pc' = "idle"
    /\ cur' = NULL
    /\ trace' = [trace EXCEPT ![cur] = TraceZero]
    /\ UNCHANGED <<inputOn, clock, actor>>

\* the last step of the Pulse of a remote player without the test of
\* line 1754
PulseInterpolateIgnoresVehicle ==
    /\ pc = "interp" /\ ~crashed
    /\ Commit(Interpolate(Begin, cur, clock))
    /\ pc' = "idle"
    /\ cur' = NULL
    /\ trace' = [trace EXCEPT ![cur] = TraceZero]
    /\ UNCHANGED <<inputOn, clock, actor>>

\* lines 1751-1759
PulseInterpolate ==
    /\ pc = "interp" /\ ~crashed
    /\ Commit(IF ~IsInVehicle(World, cur) THEN Interpolate(Begin, cur, clock) ELSE Begin)
    /\ pc' = "idle"
    /\ cur' = NULL
    /\ trace' = [trace EXCEPT ![cur] = TraceZero]
    /\ UNCHANGED <<inputOn, clock, actor>>

\* ========================================================= specifications
NewVehicle(pos) ==
    [occupant |-> [seat \in Seats |-> NULL],
     doorLockState |-> 0, streamedIn |-> TRUE, pos |-> pos * Scale]

InitCommon ==
    /\ peds = [p \in Players |-> IF p = LocalPlayer THEN [NoPed EXCEPT !.health = SpawnHealth]
                                 ELSE NoPed]
    /\ inputOn = TRUE
    /\ clock = 0
    /\ pc = "idle"
    /\ cur = NULL
    /\ out = <<>>
    /\ crashed = FALSE
    /\ trace = [p \in Players |-> TraceZero]

InitT(A, D, POS) ==
    /\ InitCommon
    /\ actor \in A
    /\ \E d \in D :
         /\ d => actor = LocalPlayer      \* the flag is read by the Pulse of the local player
         /\ players = [p \in Players |-> NewPlayer(p, 0, d /\ p = LocalPlayer)]
    /\ \E pos \in POS :
         vehicles = [v \in Vehicles |-> NewVehicle(pos[v])]

\* ---- the vehicle enter/exit state machine: every call, the simulation and
\* Pulse on one player object, local or remote. The pad of the local player
\* is idle here (SpecKey drives the keys) and the vehicles are undamaged.
Init == InitT({LocalPlayer, LocalPlayer + 1}, BOOLEAN, {[v \in Vehicles |-> 3]})

Next ==
    \/ \E v \in Vehicles, seat \in Seats : CallEnterVehicle(actor, v, seat)
    \/ \E bFault \in BOOLEAN : CallExitVehicle(actor, FALSE, FALSE, bFault)
    \/ \E v \in Vehicles, seat \in Seats : CallPutInVehicle(actor, v, seat)
    \/ CallRemoveFromVehicle(actor)
    \/ CallResetVehicleEnterExit(actor)
    \/ \E b \in BOOLEAN : CallKill(actor, b)
    \/ CallClearDieTask(actor)
    \/ \E b \in BOOLEAN : CallStreamIn(actor, b)
    \/ CallStreamOut(actor)
    \/ SimSeatPed(actor)
    \/ SimTaskEnd(actor)
    \/ SimLeaveVehicle(actor)
    \/ \E kind \in {"getin", "getout"} : SimStartTask(actor, kind)
    \/ PulseBegin(actor, ZeroControlState)
    \/ PulseLocks
    \/ PulseProcess
    \/ PulseCheckKey(FALSE, FALSE)
    \/ PulseDeathCheck(FALSE)
    \/ PulseInterpolate

Spec == Init /\ [][Next]_vars

\* ---- the key check: the local player driven by its keys, with the grants
\* of the server, next to vehicles that are near or far, locked or unlocked
\* vehicle positions (the player stands at 0): at most one vehicle within
\* the radius, or all of them within it with the last of the list closest
KeyPositions ==
    {[v \in Vehicles |-> IF v = n THEN 3 ELSE 7] : n \in Vehicles \cup {NULL}}
        \cup {[v \in Vehicles |-> NumVehicles + 2 - v]}

InitKey == InitT({LocalPlayer}, BOOLEAN, KeyPositions)

NextKey ==
    \/ \E v \in Vehicles, seat \in Seats : CallEnterVehicle(LocalPlayer, v, seat)
    \/ \E bFault \in BOOLEAN : CallExitVehicle(LocalPlayer, FALSE, FALSE, bFault)
    \/ CallResetVehicleEnterExit(LocalPlayer)
    \/ SimSeatPed(LocalPlayer)
    \/ SimTaskEnd(LocalPlayer)
    \/ SimLeaveVehicle(LocalPlayer)
    \/ \E kind \in {"getin", "getout"} : SimStartTask(LocalPlayer, kind)
    \/ \E b \in BOOLEAN : SetInputState(b)
    \/ \E v \in Vehicles, l \in 0..1 : SetDoorLockState(v, l)
    \/ \E sample \in ControlStates : PulseBegin(LocalPlayer, sample)
    \/ PulseLocks
    \/ PulseProcess
    \/ PulseCheckKey(FALSE, FALSE)
    \/ PulseDeathCheck(FALSE)

SpecKey == InitKey /\ [][NextKey]_vars

\* ---- the health and armour locks of one streamed player
AttrPlayer == LocalPlayer + 1

InitAttr ==
    /\ InitCommon
    /\ actor = AttrPlayer
    /\ \E h \in HealthValues :
         players = [p \in Players |-> NewPlayer(p, IF p = AttrPlayer THEN h ELSE 0, FALSE)]
    /\ vehicles = [v \in Vehicles |-> NewVehicle(7)]

NextAttr ==
    \/ \E v \in HealthValues : CallSetHealth(AttrPlayer, v)
    \/ \E v \in HealthValues : CallLockHealth(AttrPlayer, v)
    \/ \E v \in ArmourValues : CallSetArmour(AttrPlayer, v)
    \/ \E v \in ArmourValues : CallLockArmour(AttrPlayer, v)
    \/ \E w \in HealthValues : SimWriteHealth(AttrPlayer, w)
    \/ \E w \in ArmourValues : SimWriteArmour(AttrPlayer, w)
    \/ \E b \in BOOLEAN : CallKill(AttrPlayer, b)
    \/ CallClearDieTask(AttrPlayer)
    \/ \E b \in BOOLEAN : CallStreamIn(AttrPlayer, b)
    \/ CallStreamOut(AttrPlayer)
    \/ \E sample \in ControlStates : PulseBegin(AttrPlayer, sample)
    \/ PulseLocks
    \/ PulseProcess
    \/ PulseInterpolate

SpecAttr == InitAttr /\ [][NextAttr]_vars

\* ---- the entry of one player, local or remote, into vehicles whose door
\* lock and streaming state change while the entry is under way
InitEntry == InitT({LocalPlayer, LocalPlayer + 1}, BOOLEAN, {[v \in Vehicles |-> 3]})

NextEntry ==
    \/ \E v \in Vehicles, seat \in Seats : CallEnterVehicle(actor, v, seat)
    \/ CallResetVehicleEnterExit(actor)
    \/ CallStreamIn(actor, TRUE)
    \/ SimSeatPed(actor)
    \/ SimTaskEnd(actor)
    \/ SimLeaveVehicle(actor)
    \/ \E v \in Vehicles, l \in 0..1 : SetDoorLockState(v, l)
    \/ \E v \in Vehicles, b \in BOOLEAN : SetStreamedIn(v, b)
    \/ PulseBegin(actor, ZeroControlState)
    \/ PulseLocks
    \/ PulseProcess
    \/ PulseCheckKey(FALSE, FALSE)
    \/ PulseDeathCheck(FALSE)
    \/ PulseInterpolate

SpecEntry == InitEntry /\ [][NextEntry]_vars

\* the same with the tick running on: the frame loop calls Pulse again and
\* again and every Pulse runs to its end (lines 1696-1761)
SpecEntryFair ==
    /\ SpecEntry
    /\ WF_vars(PulseBegin(actor, ZeroControlState))
    /\ WF_vars(PulseLocks)
    /\ WF_vars(PulseProcess)
    /\ WF_vars(PulseCheckKey(FALSE, FALSE))
    /\ WF_vars(PulseDeathCheck(FALSE))
    /\ WF_vars(PulseInterpolate)

\* ---- the vehicle death check: one player, local or remote, in vehicles
\* whose damage and death the exit attempt and the poll of Pulse read
InitDeath == InitT({LocalPlayer, LocalPlayer + 1}, BOOLEAN, {[v \in Vehicles |-> 3]})

NextDeath ==
    \/ \E v \in Vehicles, seat \in Seats : CallPutInVehicle(actor, v, seat)
    \/ \E bDamaged, bCarDead, bFault \in BOOLEAN :
          CallExitVehicle(actor, bDamaged, bCarDead, bFault)
    \/ CallRemoveFromVehicle(actor)
    \/ CallStreamIn(actor, TRUE)
    \/ SimTaskEnd(actor)
    \/ SimLeaveVehicle(actor)
    \/ \E b \in BOOLEAN : PulseBegin(actor, [enterExit |-> b, horn |-> FALSE])
    \/ PulseLocks
    \/ PulseProcess
    \/ \E bDamaged, bCarDead \in BOOLEAN : PulseCheckKey(bDamaged, bCarDead)
    \/ \E bCarDead \in BOOLEAN : PulseDeathCheck(bCarDead)
    \/ PulseInterpolate

SpecDeath == InitDeath /\ [][NextDeath]_vars

\* ---- the position interpolation of one streamed player that stays on
\* foot: targets arrive, the clock moves on and Pulse applies the slices;
\* nothing else moves the ped
InitInterp ==
    /\ InitCommon
    /\ actor = AttrPlayer
    /\ players = [p \in Players |-> NewPlayer(p, 0, FALSE)]
    /\ vehicles = [v \in Vehicles |-> NewVehicle(7)]

NextInterp ==
    \/ \E P \in Targets, D \in Delays : CallSetTargetPosition(AttrPlayer, P, D)
    \/ CallRemoveTargetPosition(AttrPlayer)
    \/ CallResetInterpolation(AttrPlayer)
    \/ Tick
    \/ CallStreamIn(AttrPlayer, TRUE)
    \/ CallStreamOut(AttrPlayer)
    \/ PulseBegin(AttrPlayer, ZeroControlState)
    \/ PulseLocks
    \/ PulseProcess
    \/ PulseInterpolate

SpecInterp == InitInterp /\ [][NextInterp]_vars

\* ---- the position interpolation of one streamed player that enters and
\* leaves vehicles while targets arrive
InitInterpVehicle ==
    /\ InitCommon
    /\ actor = AttrPlayer
    /\ players = [p \in Players |-> NewPlayer(p, 0, FALSE)]
    /\ vehicles = [v \in Vehicles |-> NewVehicle(3)]

NextInterpVehicle ==
    \/ \E P \in Targets, D \in Delays : CallSetTargetPosition(AttrPlayer, P, D)
    \/ Tick
    \/ CallStreamIn(AttrPlayer, TRUE)
    \/ \E seat \in Seats : CallEnterVehicle(AttrPlayer, 1, seat)
    \/ CallExitVehicle(AttrPlayer, FALSE, FALSE, FALSE)
    \/ SimSeatPed(AttrPlayer)
    \/ SimTaskEnd(AttrPlayer)
    \/ PulseBegin(AttrPlayer, ZeroControlState)
    \/ PulseLocks
    \/ PulseProcess
    \/ PulseInterpolate

SpecInterpVehicle == InitInterpVehicle /\ [][NextInterpVehicle]_vars

\* ---- the control states of one player, local or remote: control states
\* arrive through SetControlState and the Pulse of the local player samples
\* the pad; no vehicle is within reach of the key check
InitControl == InitT({LocalPlayer, LocalPlayer + 1}, BOOLEAN, {[v \in Vehicles |-> 7]})

NextControl ==
    \/ \E controlState \in ControlStates : CallSetControlState(actor, controlState)
    \/ CallStreamIn(actor, TRUE)
    \/ CallStreamOut(actor)
    \/ \E sample \in ControlStates : PulseBegin(actor, sample)
    \/ PulseLocks
    \/ PulseProcess
    \/ PulseCheckKey(FALSE, FALSE)
    \/ PulseDeathCheck(FALSE)
    \/ PulseInterpolate

SpecControl == InitControl /\ [][NextControl]_vars

\* ---- the closest-vehicle search: one vehicle at 3 units and the others at
\* 5 or 7, or all of them at 3, at the cap or at 7 units; vehicles are
\* streamed in and out and a remote player takes the passenger seats of
\* vehicle 1; the key check of the local player runs the search
ClosestPositions ==
    {[v \in Vehicles |-> IF v = n THEN 3 ELSE d] : n \in Vehicles, d \in {5, 7}}
        \cup {[v \in Vehicles |-> d] : d \in {3, MaxEnterDistance, 7}}

\* at most one of the two keys is down
OneKeyStates == {s \in ControlStates : ~(s.enterExit /\ s.horn)}

InitClosest == InitT({LocalPlayer}, BOOLEAN, ClosestPositions)

NextClosest ==
    \/ CallStreamIn(LocalPlayer + 1, TRUE)
    \/ \E seat \in 1..MaxPassengers : CallPutInVehicle(LocalPlayer + 1, 1, seat)
    \/ CallRemoveFromVehicle(LocalPlayer + 1)
    \/ \E v \in Vehicles, b \in BOOLEAN : SetStreamedIn(v, b)
    \/ \E sample \in OneKeyStates : PulseBegin(LocalPlayer, sample)
    \/ PulseLocks
    \/ PulseProcess
    \/ PulseCheckKey(FALSE, FALSE)
    \/ PulseDeathCheck(FALSE)

SpecClosest == InitClosest /\ [][NextClosest]_vars

\* ---- the kill information of the local player: the players stream in
\* and out, sit in vehicles as drivers or passengers, and peds and game
\* vehicles damage the local player
Entities == {PedEntity(q) : q \in Players} \cup {VehicleEntity(v) : v \in Vehicles}

InitKill == InitT({LocalPlayer}, {FALSE}, {[v \in Vehicles |-> 3]})

NextKill ==
    \/ \E p \in RemotePlayers : CallStreamIn(p, TRUE)
    \/ \E p \in RemotePlayers : CallStreamOut(p)
    \/ \E p \in RemotePlayers, v \in Vehicles, seat \in Seats : CallPutInVehicle(p, v, seat)
    \/ \E p \in RemotePlayers : CallRemoveFromVehicle(p)
    \/ \E v \in Vehicles, b \in BOOLEAN : SetStreamedIn(v, b)
    \/ \E p \in Players, entity \in Entities : SimDamage(p, entity)
    \/ \E p \in RemotePlayers, w \in WeaponIds : SimSwitchWeapon(p, w)
    \/ \E p \in Players : CallGetKillInfo(p)

SpecKill == InitKill /\ [][NextKill]_vars

\* ---- the steps of Pulse: one player, local or remote, whose enter/exit
\* key is sampled, that enters vehicle 1 and leaves it, while a target
\* is set and the clock moves on
InitPulse == InitT({LocalPlayer, LocalPlayer + 1}, BOOLEAN, {[v \in Vehicles |-> 3]})

NextPulse ==
    \/ \E D \in Delays : CallSetTargetPosition(actor, 3, D)
    \/ Tick
    \/ CallStreamIn(actor, TRUE)
    \/ CallEnterVehicle(actor, 1, 0)
    \/ CallExitVehicle(actor, FALSE, FALSE, FALSE)
    \/ SimSeatPed(actor)
    \/ SimTaskEnd(actor)
    \/ SimLeaveVehicle(actor)
    \/ \E b \in BOOLEAN : PulseBegin(actor, [enterExit |-> b, horn |-> FALSE])
    \/ PulseLocks
    \/ PulseProcess
    \/ PulseCheckKey(FALSE, FALSE)
    \/ PulseDeathCheck(FALSE)
    \/ PulseInterpolate

SpecPulse == InitPulse /\ [][NextPulse]_vars

\* ---- the occupants of the vehicles: all the players are put into and
\* removed from the same vehicles, enter vehicle 1 and leave their
\* vehicles, in any interleaving of their handlers
InitOccupancy == InitT({LocalPlayer}, BOOLEAN, {[v \in Vehicles |-> 3]})

NextOccupancy ==
    \/ \E p \in RemotePlayers : CallStreamIn(p, TRUE)
    \/ \E p \in Players, v \in Vehicles, seat \in Seats : CallPutInVehicle(p, v, seat)
    \/ \E p \in Players : CallRemoveFromVehicle(p)
    \/ \E p \in Players, seat \in Seats : CallEnterVehicle(p, 1, seat)
    \/ \E p \in Players : SimSeatPed(p)
    \/ \E p \in Players : SimTaskEnd(p)
    \/ \E p \in Players : CallExitVehicle(p, FALSE, FALSE, FALSE)
    \/ \E p \in Players : SimLeaveVehicle(p)
    \/ \E p \in Players : PulseBegin(p, ZeroControlState)
    \/ PulseLocks
    \/ PulseProcess
    \/ PulseCheckKey(FALSE, FALSE)
    \/ PulseDeathCheck(FALSE)
    \/ PulseInterpolate

SpecOccupancy == InitOccupancy /\ [][NextOccupancy]_vars

TypeOK ==
    /\ pc \in {"idle", "locks", "process", "checkkey", "deathcheck", "interp"}
    /\ cur \in Players \cup {NULL}
    /\ crashed \in BOOLEAN

\* ================================================================= claims
VEE(p) == players[p].m_vehicleEnterExit

\* the messages and calls issued by the step being taken
SentNow == out'

CountOf(seq, msg) == Cardinality({i \in DOMAIN seq : seq[i] = msg})
CountKind(seq, kind) == Cardinality({i \in DOMAIN seq : seq[i][1] = kind})

\* C1: in every reachable state of a player, whatever calls, simulation steps
\* and Pulses came before, bEntering and bExiting are never both true.
C1_NeverEnteringAndExiting ==
    \A p \in Players : ~(VEE(p).bEntering /\ VEE(p).bExiting)

\* an exit is under way on a player that entered its vehicle through the
\* entry state machine
C1_Witness ==
    \E p \in Players :
        /\ VEE(p).bExiting
        /\ players[p].m_pVehicle # NULL
        /\ peds[p].task = "getout"
        /\ peds[p].inVehicle

\* C2: a player is referenced by at most one occupant slot over all vehicles
\* and seats (each slot holds one reference, so a seat never holds two
\* players).
SlotsOf(p) == {vs \in Vehicles \X Seats : vehicles[vs[1]].occupant[vs[2]] = p}

C2_AtMostOneSlotPerPlayer ==
    \A p \in Players : Cardinality(SlotsOf(p)) <= 1

\* C3: CheckVehicleEntryExitKey sends an EntryRequest or ExitRequest only
\* from a state where bRequesting is false, sends at most one, and sets
\* bRequesting when it sends; while bRequesting is true the key check sends
\* nothing and leaves the enter/exit record unchanged.
RequestsIn(seq) == CountKind(seq, "EntryRequest") + CountKind(seq, "ExitRequest")

C3_Step ==
    pc = "checkkey" =>
        /\ RequestsIn(SentNow) <= 1
        /\ RequestsIn(SentNow) = 1 =>
              ~VEE(cur).bRequesting /\ players'[cur].m_vehicleEnterExit.bRequesting
        /\ VEE(cur).bRequesting =>
              /\ out' = <<>>
              /\ players'[cur].m_vehicleEnterExit = VEE(cur)

C3_SingleOutstandingRequest == [][C3_Step]_vars

KeyEdge(p) ==
    \/ players[p].m_currentControlState.enterExit # players[p].m_previousControlState.enterExit
    \/ players[p].m_previousControlState.horn /\ ~players[p].m_currentControlState.horn

\* the key check has just run on an input edge with a request outstanding
\* and has sent nothing
C3_Witness ==
    /\ pc = "deathcheck"
    /\ VEE(cur).bRequesting
    /\ KeyEdge(cur)
    /\ inputOn
    /\ RequestsIn(out) = 0

\* C4: bRequesting is false again as soon as the grant is applied: in every
\* reachable state where bEntering or bExiting is true, bRequesting is false.
C4_NoRequestWhileEnteringOrExiting ==
    \A p \in Players : (VEE(p).bEntering \/ VEE(p).bExiting) => ~VEE(p).bRequesting

\* C5: Pulse never releases a lock: the lock step of a Pulse leaves a locked
\* attribute locked with the same locked value and the simulated value
\* equal to it, and no other step of the Pulse releases it.
C5_Step ==
    pc # "idle" =>
        /\ players[cur].m_bHealthLocked =>
              /\ players'[cur].m_bHealthLocked
              /\ players'[cur].m_uiLockedHealth = players[cur].m_uiLockedHealth
              /\ pc = "locks" => peds'[cur].health = players[cur].m_uiLockedHealth
        /\ players[cur].m_bArmourLocked =>
              /\ players'[cur].m_bArmourLocked
              /\ players'[cur].m_uiLockedArmour = players[cur].m_uiLockedArmour
              /\ pc = "locks" => peds'[cur].armour = players[cur].m_uiLockedArmour

C5_PulseKeepsLocks == [][C5_Step]_vars

\* C6: with the armour locked at v, the lock step of the next Pulse writes
\* the simulated armour back to v, whatever the simulation has made of it.
C6_Step ==
    (/\ pc = "locks"
     /\ trace[cur].aon /\ trace[cur].awritten
     /\ players[cur].m_bArmourLocked
     /\ peds[cur].armour # trace[cur].av)
    => peds'[cur].armour = trace[cur].av

C6_ArmourReapplied == [][C6_Step]_vars

\* C7: after LockHealth(v) on a spawned player and a write of the simulation
\* to its health, GetHealth returns v from the call up to the end of the
\* next Pulse, and that Pulse leaves the simulated health equal to v.
C7_State ==
    \A p \in Players :
        trace[p].on =>
            /\ GetHealth(World, p) = trace[p].v
            /\ (cur = p /\ pc \in {"process", "interp", "checkkey", "deathcheck"}) =>
                  peds[p].health = trace[p].v

C7_LastStep ==
    (pc \in {"interp", "deathcheck"} /\ trace[cur].on) =>
        /\ peds'[cur].health = trace[cur].v
        /\ ~players'[cur].m_bHealthLocked
        /\ players'[cur].m_bSpawned

C8_Step ==
    \A p \in Players :
        /\ \A v \in HealthValues :
              /\ CallSetHealth(p, v) =>
                    /\ ~players'[p].m_bHealthLocked
                    /\ players[p].m_bSpawned => peds'[p].health = v
              /\ CallLockHealth(p, v) =>
                    /\ players'[p].m_bHealthLocked
                    /\ players'[p].m_uiLockedHealth = v
        /\ \A v \in ArmourValues :
              /\ CallSetArmour(p, v) =>
                    /\ ~players'[p].m_bArmourLocked
                    /\ players[p].m_bSpawned => peds'[p].armour = v
              /\ CallLockArmour(p, v) =>
                    /\ players'[p].m_bArmourLocked
                    /\ players'[p].m_uiLockedArmour = v

C8_AttributeApi == [][C8_Step]_vars

\* C9: when the processing step of a Pulse finds a player with a current
\* vehicle V, bExiting false and its ped outside any vehicle, it sends
\* ExitForceful{player, V} exactly once if V is a network vehicle and not at
\* all otherwise, empties the occupant slot of the player's seat and leaves
\* the player with no current vehicle and seat 0; and whenever any step
\* sends an ExitForceful the player had a current vehicle before and has
\* none after, so no later Pulse repeats it for that occupancy.
C9_Step ==
    /\ (/\ pc = "process"
        /\ players[cur].m_pVehicle # NULL
        /\ ~VEE(cur).bExiting
        /\ ~peds[cur].inVehicle)
       =>
        LET pV == players[cur].m_pVehicle
            seat == players[cur].m_byteVehicleSeatId
        IN  /\ CountOf(SentNow, <<"ExitForceful", cur, pV>>)
                  = IF IsNetworkVehicle(pV) THEN 1 ELSE 0
            /\ CountKind(SentNow, "ExitForceful")
                  = IF IsNetworkVehicle(pV) THEN 1 ELSE 0
            /\ vehicles'[pV].occupant[seat] = NULL
            /\ players'[cur].m_pVehicle = NULL
            /\ players'[cur].m_byteVehicleSeatId = 0
    /\ CountKind(SentNow, "ExitForceful") > 0 =>
          /\ pc = "process"
          /\ players[cur].m_pVehicle # NULL
          /\ players'[cur].m_pVehicle = NULL

C9_ForcedExit == [][C9_Step]_vars

\* the processing step has just handled a forced exit from a network vehicle
C9_Witness ==
    /\ pc \in {"checkkey", "interp"}
    /\ CountKind(out, "ExitForceful") = 1
    /\ players[cur].m_pVehicle = NULL
    /\ players[cur].m_byteVehicleSeatId = 0

\* C10 as stated: when the idle local player gets the enter/exit edge (the
\* release that triggers an entry) while the closest vehicle within the
\* radius is an unlocked network vehicle whose first free passenger seat is
\* seat 1, exactly one EntryRequest{player, vehicle, seat 1} is sent,
\* bRequesting becomes true and bEntering stays false.
IdlePlayer(p) ==
    /\ players[p].m_bSpawned
    /\ players[p].m_pVehicle = NULL
    /\ ~VEE(p).bEntering /\ ~VEE(p).bExiting /\ ~VEE(p).bRequesting

DistanceTo(p, v) == Abs(peds[p].pos - vehicles[v].pos)

ClosestIs(p, v) ==
    /\ vehicles[v].streamedIn
    /\ DistanceTo(p, v) < MaxEnterDistance * Scale
    /\ \A u \in Vehicles \ {v} : vehicles[u].streamedIn => DistanceTo(p, v) < DistanceTo(p, u)

EnterExitReleased(p) ==
    players[p].m_previousControlState.enterExit /\ ~players[p].m_currentControlState.enterExit
EnterExitPressed(p) ==
    ~players[p].m_previousControlState.enterExit /\ players[p].m_currentControlState.enterExit
HornReleased(p) ==
    players[p].m_previousControlState.horn /\ ~players[p].m_currentControlState.horn

\* the target of the scenario: closest, network, unlocked, seat 1 first free
PassengerTarget(p, v) ==
    /\ ClosestIs(p, v)
    /\ IsNetworkVehicle(v)
    /\ vehicles[v].doorLockState = 0
    /\ vehicles[v].occupant[1] = NULL

RequestSent(p, v, seat) ==
    /\ SentNow = << <<"EntryRequest", p, v, seat>> >>
    /\ players'[p].m_vehicleEnterExit.bRequesting
    /\ ~players'[p].m_vehicleEnterExit.bEntering

C10_OriginalStep ==
    \A v \in Vehicles :
        (/\ pc = "checkkey" /\ inputOn
         /\ IdlePlayer(cur)
         /\ EnterExitReleased(cur)
         /\ PassengerTarget(cur, v))
        => RequestSent(cur, v, 1)

C10_Original == [][C10_OriginalStep]_vars

\* C10 amended: the passenger request is triggered by the release of the
\* horn key (in a tick without a fresh enter/exit press, input enabled):
\* then exactly one EntryRequest{player, vehicle, seat 1} is sent,
\* bRequesting becomes true and bEntering stays false; the release of the
\* enter/exit key alone requests the driver seat 0 of that vehicle; and with
\* the request outstanding bEntering becomes true only by an EnterVehicle
\* call (the grant).
C10_AmendedStep ==
    /\ \A v \in Vehicles :
          (/\ pc = "checkkey" /\ inputOn
           /\ IdlePlayer(cur)
           /\ ~EnterExitPressed(cur)
           /\ PassengerTarget(cur, v))
          =>
           /\ HornReleased(cur) => RequestSent(cur, v, 1)
           /\ (EnterExitReleased(cur) /\ ~HornReleased(cur)) => RequestSent(cur, v, 0)
    /\ \A p \in Players :
          (VEE(p).bRequesting /\ ~VEE(p).bEntering
              /\ players'[p].m_vehicleEnterExit.bEntering)
          => \E v \in Vehicles, seat \in Seats : CallEnterVehicle(p, v, seat)

C10_EntryRequest == [][C10_AmendedStep]_vars

\* the key check has just sent the passenger request for seat 1
C10_Witness ==
    /\ pc = "deathcheck"
    /\ HornReleased(cur)
    /\ \E v \in Vehicles : out = << <<"EntryRequest", cur, v, 1>> >>
    /\ VEE(cur).bRequesting
    /\ ~VEE(cur).bEntering


\* C11: in the processing step of the first Pulse that finds bEntering set,
\* the ped inside a vehicle and no entry task running, bEntering is cleared,
\* the player's vehicle and seat become the pending vehicle and seat, the
\* occupant slot (pending vehicle, pending seat) holds the player, and
\* exactly one EntryComplete{player, vehicle, seat} is sent if the vehicle is
\* a network vehicle and none otherwise.
EntryFinished(p) ==
    /\ players[p].m_bSpawned
    /\ VEE(p).bEntering
    /\ peds[p].inVehicle
    /\ peds[p].task # "getin"

C11_Step ==
    (pc = "process" /\ EntryFinished(cur)) =>
        LET pV == VEE(cur).pVehicle
            seat == VEE(cur).byteSeatId
            n == IF IsNetworkVehicle(pV) THEN 1 ELSE 0
        IN  /\ pV # NULL
            /\ ~crashed'
            /\ ~players'[cur].m_vehicleEnterExit.bEntering
            /\ players'[cur].m_pVehicle = pV
            /\ players'[cur].m_byteVehicleSeatId = seat
            /\ vehicles'[pV].occupant[seat] = cur
            /\ CountOf(SentNow, <<"EntryComplete", cur, pV, seat>>) = n
            /\ CountKind(SentNow, "EntryComplete") = n

C11_EntryCompletion == [][C11_Step]_vars

\* the processing step has just completed an entry into a network vehicle on
\* a passenger seat: the player holds the slot of its seat
C11_Witness ==
    /\ pc \in {"checkkey", "interp"}
    /\ CountKind(out, "EntryComplete") = 1
    /\ players[cur].m_pVehicle # NULL
    /\ players[cur].m_byteVehicleSeatId = 1
    /\ vehicles[players[cur].m_pVehicle].occupant[1] = cur
    /\ ~VEE(cur).bEntering


\* C12 as stated: in the processing step of a Pulse that finds bEntering set,
\* the ped outside any vehicle and no entry task running, (a) for the local
\* player bEntering and the pending vehicle are cleared and, for a network
\* vehicle, exactly one EntryCancelled is sent and the vehicle is made not
\* damageable; (b) for a remote player nothing is sent, bEntering stays set
\* and the entry task is started again against the same pending vehicle and
\* seat.
EntryAborted(p) ==
    /\ players[p].m_bSpawned
    /\ VEE(p).bEntering
    /\ ~peds[p].inVehicle
    /\ peds[p].task # "getin"

C12_LocalCancel(p) ==
    LET pV == VEE(p).pVehicle
    IN  /\ ~players'[p].m_vehicleEnterExit.bEntering
        /\ players'[p].m_vehicleEnterExit.pVehicle = NULL
        /\ IF IsNetworkVehicle(pV)
           THEN /\ CountKind(SentNow, "EntryCancelled") = 1
                /\ \E seat \in Seats : CountOf(SentNow, <<"EntryCancelled", p, pV, seat>>) = 1
                /\ CountOf(SentNow, <<"SetDamageable", pV, FALSE>>) = 1
           ELSE SentNow = <<>>

C12_RemoteKeeps(p) ==
    /\ SentNow = <<>>
    /\ players'[p].m_vehicleEnterExit = VEE(p)

C12_OriginalStep ==
    (pc = "process" /\ EntryAborted(cur)) =>
        IF IsLocalPlayer(cur) THEN C12_LocalCancel(cur)
        ELSE C12_RemoteKeeps(cur) /\ peds'[cur].task = "getin"

C12_AmendedStep ==
    (pc = "process" /\ EntryAborted(cur)) =>
        IF IsLocalPlayer(cur) THEN C12_LocalCancel(cur)
        ELSE /\ C12_RemoteKeeps(cur)
             /\ LET pV == VEE(cur).pVehicle
                IN  peds'[cur].task =
                       IF vehicles[pV].streamedIn /\ vehicles[pV].doorLockState = 0
                       THEN "getin" ELSE "none"

C13_Step ==
    /\ (pc = "checkkey" /\ players[cur].m_pVehicle # NULL) =>
          LET pV == players[cur].m_pVehicle
          IN  /\ CountKind(SentNow, "EntryRequest") = 0
              /\ (/\ inputOn /\ EnterExitPressed(cur)
                  /\ IsNetworkVehicle(pV)
                  /\ ~VEE(cur).bRequesting /\ ~VEE(cur).bExiting)
                 => /\ SentNow = << <<"ExitRequest", cur, pV>> >>
                    /\ players'[cur].m_vehicleEnterExit.bRequesting
                    /\ ~players'[cur].m_vehicleEnterExit.bExiting
                    /\ peds' = peds
              /\ (EnterExitPressed(cur) /\ (VEE(cur).bRequesting \/ VEE(cur).bExiting))
                 => /\ SentNow = <<>>
                    /\ players'[cur].m_vehicleEnterExit = VEE(cur)
    /\ \A p \in Players :
          (VEE(p).bRequesting /\ ~VEE(p).bExiting
              /\ players'[p].m_vehicleEnterExit.bExiting)
          => \E bDamaged, bCarDead, bFault \in BOOLEAN :
                 CallExitVehicle(p, bDamaged, bCarDead, bFault)

C13_ExitRequest == [][C13_Step]_vars

\* the key check has just sent the exit request of the local player
C13_Witness ==
    /\ pc = "deathcheck"
    /\ EnterExitPressed(cur) /\ inputOn
    /\ players[cur].m_pVehicle # NULL
    /\ out = << <<"ExitRequest", cur, players[cur].m_pVehicle>> >>
    /\ VEE(cur).bRequesting
    /\ ~VEE(cur).bExiting


\* C14: in the processing step of the first Pulse that finds bExiting set and
\* no exit task running, bExiting is cleared, the occupant slot of the
\* player's seat is released, the vehicle is made not damageable, the player
\* has no vehicle and seat 0, and exactly one ExitComplete{player, vehicle}
\* is sent if the vehicle is a network vehicle and none otherwise: a player
\* whose exit task has ended does not stay in the exiting state.
ExitFinished(p) ==
    /\ players[p].m_bSpawned
    /\ VEE(p).bExiting
    /\ peds[p].task # "getout"

C14_Step ==
    (pc = "process" /\ ExitFinished(cur)) =>
        LET pV == players[cur].m_pVehicle
            seat == players[cur].m_byteVehicleSeatId
            n == IF IsNetworkVehicle(pV) THEN 1 ELSE 0
        IN  /\ pV # NULL
            /\ ~crashed'
            /\ ~players'[cur].m_vehicleEnterExit.bExiting
            /\ vehicles'[pV].occupant[seat] = NULL
            /\ CountOf(SentNow, <<"SetDamageable", pV, FALSE>>) = 1
            /\ players'[cur].m_pVehicle = NULL
            /\ players'[cur].m_byteVehicleSeatId = 0
            /\ CountOf(SentNow, <<"ExitComplete", cur, pV>>) = n
            /\ CountKind(SentNow, "ExitComplete") = n

C14_ExitCompletion == [][C14_Step]_vars


\* C15: when the key check of an idle player runs on a release edge of the
\* enter/exit or horn key and the closest vehicle has a door lock state
\* greater than 0, nothing is sent, no task is started and bRequesting and
\* bEntering are false afterwards; and EnterVehicle on a vehicle with a door
\* lock state greater than 0 leaves the enter/exit record and the ped as
\* they were (stated as: a step that changes them or sends something is not
\* an EnterVehicle call on a locked vehicle).
C15_Step ==
    /\ \A v \in Vehicles :
          (/\ pc = "checkkey"
           /\ IdlePlayer(cur)
           /\ EnterExitReleased(cur) \/ HornReleased(cur)
           /\ ClosestIs(cur, v)
           /\ vehicles[v].doorLockState > 0)
          => /\ SentNow = <<>>
             /\ peds' = peds
             /\ ~players'[cur].m_vehicleEnterExit.bRequesting
             /\ ~players'[cur].m_vehicleEnterExit.bEntering
    /\ \A v \in Vehicles :
          (/\ vehicles[v].doorLockState > 0
           /\ pc = "idle"
           /\ \/ players'[actor].m_vehicleEnterExit # VEE(actor)
              \/ peds' # peds
              \/ SentNow # <<>>)
          => \A seat \in Seats : ~CallEnterVehicle(actor, v, seat)

C15_DoorLocked == [][C15_Step]_vars

\* the key check has just run on the release edge next to a locked vehicle
\* and has abandoned the attempt
C15_Witness ==
    /\ pc = "deathcheck"
    /\ inputOn
    /\ IdlePlayer(cur)
    /\ EnterExitReleased(cur) \/ HornReleased(cur)
    /\ \E v \in Vehicles : ClosestIs(cur, v) /\ vehicles[v].doorLockState > 0
    /\ out = <<>>
    /\ peds[cur].task = "none"


\* C16: the enter/exit record is all-false with no pending vehicle and
\* pending seat 0 after each of these steps: the player is spawned (Create /
\* StreamIn), the processing step completes an entry, the processing step
\* completes an exit, and the processing step cancels the entry of the local
\* player.
C16_Step ==
    /\ \A p \in Players :
          (~players[p].m_bSpawned /\ players'[p].m_bSpawned)
          => players'[p].m_vehicleEnterExit = ZeroEnterExit
    /\ (/\ pc = "process"
        /\ \/ EntryFinished(cur)
           \/ ExitFinished(cur) /\ ~peds[cur].inVehicle
           \/ EntryAborted(cur) /\ IsLocalPlayer(cur))
       => players'[cur].m_vehicleEnterExit = ZeroEnterExit

C16_RecordReset == [][C16_Step]_vars


\* C17: for a vehicle that is not a network vehicle, the key check of the
\* idle local player on a release edge (input enabled, the vehicle closest,
\* unlocked and, for the horn, with a free passenger seat) starts the entry
\* task in that step with bEntering set and bRequesting not set; the key
\* check on the press edge while the player has such a vehicle (bRequesting
\* and bExiting false) starts the exit task in that step with bExiting set
\* and bRequesting not set; and no step sends an EntryRequest, EntryComplete,
\* EntryCancelled, ExitRequest, ExitComplete or ExitForceful that names such
\* a vehicle.
EnterExitKinds ==
    {"EntryRequest", "EntryComplete", "EntryCancelled",
     "ExitRequest", "ExitComplete", "ExitForceful"}

SentForLocalVehicle(seq) ==
    \E i \in DOMAIN seq : seq[i][1] \in EnterExitKinds /\ ~IsNetworkVehicle(seq[i][3])

C17_Step ==
    /\ ~SentForLocalVehicle(SentNow)
    /\ \A v \in Vehicles :
          (/\ pc = "checkkey" /\ inputOn
           /\ IdlePlayer(cur)
           /\ ~EnterExitPressed(cur)
           /\ EnterExitReleased(cur) \/ HornReleased(cur)
           /\ ClosestIs(cur, v)
           /\ ~IsNetworkVehicle(v)
           /\ vehicles[v].doorLockState = 0
           /\ HornReleased(cur) => \E i \in 1..MaxPassengers : vehicles[v].occupant[i] = NULL)
          => /\ players'[cur].m_vehicleEnterExit.bEntering
             /\ players'[cur].m_vehicleEnterExit.pVehicle = v
             /\ peds'[cur].task = "getin"
             /\ ~players'[cur].m_vehicleEnterExit.bRequesting
    /\ (/\ pc = "checkkey" /\ inputOn
        /\ EnterExitPressed(cur)
        /\ players[cur].m_pVehicle # NULL
        /\ ~IsNetworkVehicle(players[cur].m_pVehicle)
        /\ ~VEE(cur).bRequesting /\ ~VEE(cur).bExiting)
       => /\ players'[cur].m_vehicleEnterExit.bExiting
          /\ peds'[cur].task = "getout"
          /\ ~players'[cur].m_vehicleEnterExit.bRequesting

C17_LocalVehicle == [][C17_Step]_vars

\* the key check has run on the press edge while the local player sat in a
\* vehicle that is not a network vehicle: the exit is under way, nothing sent
C17_Witness ==
    /\ pc = "deathcheck"
    /\ inputOn /\ EnterExitPressed(cur)
    /\ players[cur].m_pVehicle # NULL
    /\ ~IsNetworkVehicle(players[cur].m_pVehicle)
    /\ VEE(cur).bExiting /\ ~VEE(cur).bRequesting
    /\ peds[cur].task = "getout"
    /\ CountKind(out, "ExitRequest") = 0


\* C18: from construction on, a VehicleDied notice is sent only by the local
\* player; the poll of Pulse sends it only while the check is armed, the
\* player has a vehicle and that vehicle has no driver; the check is not
\* armed at construction and is armed only by an ExitVehicle that finds the
\* vehicle damaged; and a step sends at most one VehicleDied and leaves the
\* check disarmed, so that no further one is sent before it is armed again.
Acting == IF pc = "idle" THEN actor ELSE cur

ExitAttemptFindsDamage(p) ==
    \/ \E bCarDead, bFault \in BOOLEAN : CallExitVehicle(p, TRUE, bCarDead, bFault)
    \/ pc = "checkkey" /\ cur = p /\ KeyExitsDirectly(p)

C18_Step ==
    /\ CountKind(SentNow, "VehicleDied") <= 1
    /\ CountKind(SentNow, "VehicleDied") = 1 =>
          /\ IsLocalPlayer(Acting)
          /\ ~players'[Acting].m_bVehicleDeathCheck
          /\ pc = "deathcheck" =>
                /\ players[cur].m_bVehicleDeathCheck
                /\ players[cur].m_pVehicle # NULL
                /\ vehicles[players[cur].m_pVehicle].occupant[0] = NULL
          /\ pc # "deathcheck" => ExitAttemptFindsDamage(Acting)
    /\ \A p \in Players :
          (~players[p].m_bVehicleDeathCheck /\ players'[p].m_bVehicleDeathCheck)
          => ExitAttemptFindsDamage(p)

C18_VehicleDeathCheck ==
    (\A p \in Players : ~players[p].m_bVehicleDeathCheck) /\ [][C18_Step]_vars


\* C19: ExitVehicle on a spawned player that has no vehicle does nothing
\* beyond clearing a running entry task: it sends nothing, changes no
\* vehicle and no field of the enter/exit record, and the process does not
\* fault; and a call on a player that is not spawned (and stays so) changes
\* no ped and no vehicle.
C19_Step ==
    /\ \A p \in Players :
          (/\ players[p].m_bSpawned
           /\ players[p].m_pVehicle = NULL
           /\ \E bDamaged, bCarDead, bFault \in BOOLEAN :
                 CallExitVehicle(p, bDamaged, bCarDead, bFault))
          => /\ ~crashed'
             /\ SentNow = <<>>
             /\ vehicles' = vehicles
             /\ players'[p].m_vehicleEnterExit = VEE(p)
             /\ players'[p].m_bVehicleDeathCheck = players[p].m_bVehicleDeathCheck
             /\ peds'[p].task = IF peds[p].task = "getin" /\ HasVehicleEnterExit(World, p)
                                THEN "none" ELSE peds[p].task
    /\ (pc = "idle" /\ ~players[actor].m_bSpawned /\ ~players'[actor].m_bSpawned)
       => peds' = peds /\ vehicles' = vehicles

C19_InvalidTarget == [][C19_Step]_vars


\* C20: for a spawned remote player on foot that is neither entering nor
\* exiting, with nothing but SetTargetPosition and Pulse moving the ped:
\* while a target is set, the part of the stored error vector not yet
\* applied is exactly what separates the position from the target, and the
\* interpolation step of a Pulse at or after the finish time leaves the
\* position equal to the target and the finish time cleared to 0.
OnFootAndFree(p) ==
    /\ players[p].m_bSpawned
    /\ players[p].m_pVehicle = NULL
    /\ ~peds[p].inVehicle
    /\ ~VEE(p).bEntering /\ ~VEE(p).bExiting

\* (1 - fLastAlpha) * vecError = vecTarget - position, over the interval length
SlicesApplied(p) ==
    LET ip == players[p].m_interp
        len == ip.ulFinishTime - ip.ulStartTime
    IN  (len - ip.fLastAlpha) * ip.vecError = len * (ip.vecTarget - peds[p].pos)

C20_State ==
    \A p \in Players :
        (OnFootAndFree(p) /\ players[p].m_interp.ulFinishTime # 0) => SlicesApplied(p)

C20_Step ==
    (/\ pc = "interp"
     /\ OnFootAndFree(cur)
     /\ players[cur].m_interp.ulFinishTime # 0
     /\ clock >= players[cur].m_interp.ulFinishTime)
    => /\ peds'[cur].pos = players[cur].m_interp.vecTarget
       /\ players'[cur].m_interp.ulFinishTime = 0

C20_RoundTrip == [](C20_State) /\ [][C20_Step]_vars

\* an interpolation over an interval of two clock units towards a target
\* within the snap distance has run to its end
C20_Witness ==
    LET ip == players[AttrPlayer].m_interp
    IN  /\ pc = "idle"
        /\ OnFootAndFree(AttrPlayer)
        /\ ip.ulFinishTime = 0
        /\ ip.fLastAlpha = 2
        /\ clock >= ip.ulStartTime + 2
        /\ ip.vecError # 0
        /\ Abs(ip.vecError) <= SnapDistance * Scale
        /\ peds[AttrPlayer].pos = ip.vecTarget


\* C21: the interpolation step of a Pulse of a player on foot, neither
\* entering nor exiting, whose target is set: if the target lies farther
\* than the snap distance (5 units) from the position, the step puts the
\* position exactly on the target and clears the finish time to 0; at a
\* distance of at most 5 units it does not snap: the position moves by the
\* slice of the error vector that the progress made accounts for, and the
\* finish time is cleared only if the interval has run out.
FartherThanSnap(p) ==
    Abs(peds[p].pos - players[p].m_interp.vecTarget) > SnapDistance * Scale

C21_Step ==
    (/\ pc = "interp"
     /\ OnFootAndFree(cur)
     /\ players[cur].m_interp.ulFinishTime # 0)
    => LET ip == players[cur].m_interp
           len == ip.ulFinishTime - ip.ulStartTime
       IN  IF FartherThanSnap(cur)
           THEN /\ peds'[cur].pos = ip.vecTarget
                /\ players'[cur].m_interp.ulFinishTime = 0
           ELSE /\ len * (peds'[cur].pos - peds[cur].pos)
                      = (players'[cur].m_interp.fLastAlpha - ip.fLastAlpha) * ip.vecError
                /\ players'[cur].m_interp.ulFinishTime
                      = IF clock >= ip.ulFinishTime THEN 0 ELSE ip.ulFinishTime

C21_SnapBoundary == [][C21_Step]_vars

\* a Pulse has snapped the player onto a target that SetTargetPosition was
\* given more than 5 units away, before the interval had run out
C21_Witness ==
    LET ip == players[AttrPlayer].m_interp
    IN  /\ pc = "idle"
        /\ OnFootAndFree(AttrPlayer)
        /\ Abs(ip.vecError) > SnapDistance * Scale
        /\ ip.ulFinishTime = 0
        /\ ip.fLastAlpha = 0
        /\ clock > ip.ulStartTime
        /\ peds[AttrPlayer].pos = ip.vecTarget


\* C22: RemoveTargetPosition and ResetInterpolation set the finish time to
\* 0 in every state, spawned or not, with a target set or not, and change
\* nothing else; applied a second time they leave the state as the first
\* application left it; and an interpolation step that finds the finish
\* time at 0 changes neither the position nor the interpolation context.
ClearsOnce(S, S1, p) ==
    /\ S1 = [S EXCEPT !.pl[p].m_interp.ulFinishTime = 0]
    /\ RemoveTargetPosition(S1, p) = S1
    /\ ResetInterpolation(S1, p) = S1
    /\ Interpolate(S1, p, clock) = S1

C22_State ==
    \A p \in Players :
        /\ ClearsOnce(World, RemoveTargetPosition(World, p), p)
        /\ ClearsOnce(World, ResetInterpolation(World, p), p)

C22_Step ==
    /\ (pc = "idle" /\ players'[actor].m_interp # players[actor].m_interp
          /\ players'[actor].m_bSpawned = players[actor].m_bSpawned
          /\ clock' = clock
          /\ \A P \in Targets, D \in Delays : ~CallSetTargetPosition(actor, P, D))
       => /\ players' = [players EXCEPT ![actor].m_interp.ulFinishTime = 0]
          /\ peds' = peds
    /\ (pc = "interp" /\ players[cur].m_interp.ulFinishTime = 0)
       => /\ peds' = peds
          /\ players' = players

C22_ClearIdempotent == [](C22_State) /\ [][C22_Step]_vars

\* the target of a spawned player was removed in the middle of an
\* interpolation, and a later Pulse has left the player where it was
C22_Witness ==
    LET ip == players[AttrPlayer].m_interp
    IN  /\ pc = "idle"
        /\ OnFootAndFree(AttrPlayer)
        /\ ip.ulFinishTime = 0
        /\ ip.fLastAlpha > 0
        /\ ip.vecError # 0
        /\ peds[AttrPlayer].pos # ip.vecTarget
        /\ Abs(peds[AttrPlayer].pos - ip.vecTarget) <= SnapDistance * Scale
        /\ clock > ip.ulStartTime + ip.fLastAlpha


\* C23: SetTargetPosition(P, D) on a spawned player on foot, neither
\* entering nor exiting: the old interpolation, if one is active, is
\* brought up to date by one update step (the slice due at this reading of
\* the clock, or the snap), and then the new record is written: target P,
\* error vector P minus the position as that update left it, start = now,
\* finish = now + D, progress 0. On a despawned player the call changes
\* nothing.
Clamped(x, lo, hi) == IF x < lo THEN lo ELSE IF x > hi THEN hi ELSE x

\* the position one update step at the present time leads to
CollapsedTo(p, pos) ==
    LET ip == players[p].m_interp
        len == ip.ulFinishTime - ip.ulStartTime
    IN  IF ip.ulFinishTime = 0 THEN pos = peds[p].pos
        ELSE IF FartherThanSnap(p) THEN pos = ip.vecTarget
        ELSE len * (pos - peds[p].pos)
               = (Clamped(clock - ip.ulStartTime, 0, len) - ip.fLastAlpha) * ip.vecError

C23_State ==
    \A p \in Players, P \in Targets, D \in Delays :
        ~players[p].m_bSpawned
            => SetTargetPosition(World, p, P * Scale, D, clock) = World

C23_Step ==
    \A P \in Targets, D \in Delays :
        (OnFootAndFree(actor) /\ CallSetTargetPosition(actor, P, D))
        => /\ CollapsedTo(actor, peds'[actor].pos)
           /\ players'[actor].m_interp =
                 [vecTarget |-> P * Scale,
                  vecError |-> P * Scale - peds'[actor].pos,
                  ulStartTime |-> clock,
                  ulFinishTime |-> clock + D,
                  fLastAlpha |-> 0]

C23_SetTargetCollapses == [](C23_State) /\ [][C23_Step]_vars

\* a new target has just been recorded for a player that an unfinished
\* interpolation had brought part of the way to its old target
C23_Witness ==
    LET ip == players[AttrPlayer].m_interp
    IN  /\ pc = "idle"
        /\ OnFootAndFree(AttrPlayer)
        /\ ip.ulFinishTime # 0
        /\ ip.ulStartTime = clock
        /\ ip.fLastAlpha = 0
        /\ ip.vecError = ip.vecTarget - peds[AttrPlayer].pos
        /\ \A P \in Targets : peds[AttrPlayer].pos # P * Scale


\* C24: in a Pulse that reaches its interpolation step with the entering or
\* the exiting flag of the player set, the step is skipped: the
\* interpolation context and the position stay as they are; once the
\* player is on foot again with neither flag set, the step runs (progress
\* that is due is made).
C24_Step ==
    /\ (pc = "interp" /\ (VEE(cur).bEntering \/ VEE(cur).bExiting))
       => /\ players'[cur].m_interp = players[cur].m_interp
          /\ peds'[cur].pos = peds[cur].pos
    /\ (/\ pc = "interp"
        /\ OnFootAndFree(cur)
        /\ players[cur].m_interp.ulFinishTime # 0
        /\ ~FartherThanSnap(cur)
        /\ clock > players[cur].m_interp.ulStartTime + players[cur].m_interp.fLastAlpha)
       => players'[cur].m_interp.fLastAlpha > players[cur].m_interp.fLastAlpha

C24_NoInterpolationInTransition == [][C24_Step]_vars


\* C25: SetControlState(s) makes the previous control state equal to the
\* former current one and the current one equal to s, and the Pulse of the
\* spawned local player does the same with the control state sampled from
\* the pad. Hence after such a tick a key is "just pressed" (current true,
\* previous false) exactly if it was up before the tick and is down in the
\* new control state, and "just released" exactly if it was down before and
\* is up now: a key held down over consecutive ticks is just pressed on the
\* first of them only.
Keys == {"enterExit", "horn"}
JustPressed(pl, k) == pl.m_currentControlState[k] /\ ~pl.m_previousControlState[k]
JustReleased(pl, k) == ~pl.m_currentControlState[k] /\ pl.m_previousControlState[k]

ShiftedBy(p, s) ==
    /\ players'[p].m_previousControlState = players[p].m_currentControlState
    /\ players'[p].m_currentControlState = s
    /\ \A k \in Keys :
         /\ JustPressed(players'[p], k) <=> (s[k] /\ ~players[p].m_currentControlState[k])
         /\ JustReleased(players'[p], k) <=> (~s[k] /\ players[p].m_currentControlState[k])

C25_Step ==
    \A s \in ControlStates :
        /\ CallSetControlState(actor, s) => ShiftedBy(actor, s)
        /\ (IsLocalPlayer(actor) /\ PulseBegin(actor, s)) => ShiftedBy(actor, s)

C25_EdgeOnce == [][C25_Step]_vars

\* the enter/exit key of the local player has been down for two ticks in a
\* row: it is no longer just pressed
C25_Witness ==
    /\ pc = "locks"
    /\ cur = LocalPlayer
    /\ players[LocalPlayer].m_currentControlState.enterExit
    /\ players[LocalPlayer].m_previousControlState.enterExit
    /\ ~JustPressed(players[LocalPlayer], "enterExit")

\* C26: SetControlState hands the former current control state and the new
\* one to a pad exactly if the player is spawned, and the pad is the
\* player's own: the game's pad for the local player, the pad of its
\* context data for a remote player. The pads of the other players are
\* left as they are, and a player that is not spawned only updates its own
\* current and previous control states.
PadOf(p) == peds[p].pad

C26_AmendedStep ==
    \A s \in ControlStates :
        CallSetControlState(actor, s)
        => /\ PadOf(actor)' = IF players[actor].m_bSpawned
                              THEN [last |-> players[actor].m_currentControlState, current |-> s]
                              ELSE PadOf(actor)
           /\ \A q \in Players \ {actor} : PadOf(q)' = PadOf(q)
           /\ players'[actor].m_previousControlState = players[actor].m_currentControlState
           /\ players'[actor].m_currentControlState = s

C26_ControlSurface == [][C26_AmendedStep]_vars

\* the claim as stated: for a remote player every pad stays as it is
C26_OriginalStep ==
    \A s \in ControlStates :
        (~IsLocalPlayer(actor) /\ CallSetControlState(actor, s))
        => \A q \in Players : PadOf(q)' = PadOf(q)

C26_Original == [][C26_OriginalStep]_vars

\* the pad of a spawned remote player holds a control state that
\* SetControlState handed to it
C26_Witness ==
    /\ pc = "idle"
    /\ players[AttrPlayer].m_bSpawned
    /\ PadOf(AttrPlayer).current = players[AttrPlayer].m_currentControlState
    /\ PadOf(AttrPlayer).last = players[AttrPlayer].m_previousControlState
    /\ PadOf(AttrPlayer).current.enterExit
    /\ PadOf(AttrPlayer).last.horn


\* C27: GetClosestVehicle against a reference, for every player, every
\* placement, streaming state and occupancy of the vehicles: a search
\* succeeds with vehicle V only if V is streamed in, no streamed-in vehicle
\* is closer to the player and V is less than 6 units away; it fails when
\* no streamed-in vehicle is less than 6 units away; a driver search
\* succeeds whenever one is and gives seat 0; a passenger search takes the
\* same vehicle V and gives the lowest free passenger seat of V, and fails
\* if V has none. A player that is not spawned finds nothing.
WithinReach(p) ==
    {v \in Vehicles : vehicles[v].streamedIn
                       /\ GetDistance(World, p, v) < MaxEnterDistance * Scale}

FreePassengerSeats(v) == {i \in 1..MaxPassengers : vehicles[v].occupant[i] = NULL}

LowestOf(set) == CHOOSE i \in set : \A j \in set : i <= j

C27_State ==
    \A p \in Players :
        LET driver == GetClosestVehicle(World, p, FALSE)
            passenger == GetClosestVehicle(World, p, TRUE)
        IN  IF ~players[p].m_bSpawned THEN ~driver.bFound /\ ~passenger.bFound
            ELSE
              /\ driver.bFound <=> WithinReach(p) # {}
              /\ driver.bFound =>
                   /\ driver.pVehicle \in WithinReach(p)
                   /\ \A w \in Vehicles :
                        vehicles[w].streamedIn
                          => GetDistance(World, p, driver.pVehicle) <= GetDistance(World, p, w)
                   /\ driver.byteSeatId = 0
              /\ passenger.bFound <=>
                   (driver.bFound /\ FreePassengerSeats(driver.pVehicle) # {})
              /\ passenger.bFound =>
                   /\ passenger.pVehicle = driver.pVehicle
                   /\ passenger.byteSeatId = LowestOf(FreePassengerSeats(driver.pVehicle))

DriversOf(v) ==
    {q \in Players : /\ players[q].m_bSpawned
                     /\ players[q].m_pVehicle = v
                     /\ players[q].m_byteVehicleSeatId = 0}

KillerOnFoot(victim) ==
    {q \in Players : players[q].m_bSpawned /\ peds[victim].lastDamage = PedEntity(q)}

KillerDriving(victim) ==
    {q \in Players : \E v \in Vehicles :
        q \in DriversOf(v) /\ peds[victim].lastDamage = VehicleEntity(v)}

KillerVehicle(victim) ==
    {v \in Vehicles : vehicles[v].streamedIn /\ peds[victim].lastDamage = VehicleEntity(v)}

C28_State ==
    \A victim \in Players :
        LET r == GetKillInfo(World, victim)
        IN  IF ~players[victim].m_bSpawned THEN ~r.bOk
            ELSE
              /\ r.bOk
              /\ IF KillerOnFoot(victim) # {}
                 THEN /\ r.info.playerId \in KillerOnFoot(victim)
                      /\ r.info.vehicleId = INVALID_ENTITY_ID
                 ELSE IF KillerDriving(victim) # {}
                 THEN /\ r.info.playerId \in KillerDriving(victim)
                      /\ r.info.vehicleId = players[r.info.playerId].m_pVehicle
                 ELSE IF KillerVehicle(victim) # {}
                 THEN /\ r.info.playerId = INVALID_ENTITY_ID
                      /\ r.info.vehicleId \in KillerVehicle(victim)
                 ELSE r.info = NoKiller

C28_KillInfo == [](C28_State)


\* C29: the steps of one Pulse of a spawned player follow one another in a
\* fixed order, each at most once: the control state is sampled first
\* (local player), then the enter/exit state is processed (completion,
\* cancellation and forced exit, then the key check of the local player),
\* then the position is interpolated (remote player). The control states
\* change in the first step only and the enter/exit record and the current
\* vehicle in the processing steps only, so the processing works on the
\* control state sampled in this Pulse, and the interpolation step acts on
\* the current vehicle as the processing of this Pulse left it: it leaves
\* the position and the interpolation alone if the player has a vehicle,
\* and updates the target position if it has none.
ControlOf(pl) == <<pl.m_previousControlState, pl.m_currentControlState>>
PossessionOf(pl) == <<pl.m_vehicleEnterExit, pl.m_pVehicle, pl.m_byteVehicleSeatId>>

C29_Step ==
    /\ (pc = "idle" /\ pc' # "idle")
       => /\ pc' = "locks" /\ players[cur'].m_bSpawned
          /\ PossessionOf(players'[cur']) = PossessionOf(players[cur'])
          /\ IsLocalPlayer(cur')
               => players'[cur'].m_previousControlState = players[cur'].m_currentControlState
    /\ pc # "idle"
       => /\ ControlOf(players'[cur]) = ControlOf(players[cur])
          /\ cur' = IF pc' = "idle" THEN NULL ELSE cur
    /\ pc = "locks"
       => /\ pc' = "process"
          /\ PossessionOf(players'[cur]) = PossessionOf(players[cur])
          /\ players'[cur].m_interp = players[cur].m_interp
    /\ pc = "process"
       => /\ pc' = IF IsLocalPlayer(cur) THEN "checkkey" ELSE "interp"
          /\ peds'[cur].pos = peds[cur].pos
    /\ pc = "checkkey" => pc' = "deathcheck"
    /\ pc = "deathcheck"
       => /\ pc' = "idle"
          /\ PossessionOf(players'[cur]) = PossessionOf(players[cur])
    /\ pc = "interp"
       => /\ pc' = "idle"
          /\ PossessionOf(players'[cur]) = PossessionOf(players[cur])
          /\ IF players[cur].m_pVehicle # NULL
             THEN players'[cur].m_interp = players[cur].m_interp /\ peds' = peds
             ELSE /\ players' = UpdateTargetPosition(World, cur, clock).pl
                  /\ peds' = UpdateTargetPosition(World, cur, clock).ped

SeatHoldsPlayer(p) ==
    (players[p].m_bSpawned /\ players[p].m_pVehicle # NULL)
        => vehicles[players[p].m_pVehicle].occupant[players[p].m_byteVehicleSeatId] = p

SlotIsOfItsPlayer(v, seat) ==
    LET p == vehicles[v].occupant[seat]
    IN  p # NULL => (players[p].m_pVehicle = v /\ players[p].m_byteVehicleSeatId = seat)

C30_State ==
    /\ \A p \in Players : SeatHoldsPlayer(p)
    /\ \A v \in Vehicles, seat \in Seats : SlotIsOfItsPlayer(v, seat)

C30_Occupancy == [](C30_State)



\* C31: RemoveFromVehicle of a seated player, called directly or through
\* PutInVehicle of a player that is already seated, clears the occupant slot
\* of the seat the player sits in (m_byteVehicleSeatId of m_pVehicle) and
\* leaves every other slot as it was; PutInVehicle then claims the slot of
\* the new seat and nothing else.
SlotCleared(occ, v, seat) == [occ EXCEPT ![v][seat] = NULL]

OccupantTable == [v \in Vehicles |-> vehicles[v].occupant]

C31_Step ==
    LET p == actor
        pV == players[p].m_pVehicle
        seat == players[p].m_byteVehicleSeatId
    IN  (players[p].m_bSpawned /\ pV # NULL) =>
          /\ CallRemoveFromVehicle(p) =>
                OccupantTable' = SlotCleared(OccupantTable, pV, seat)
          /\ \A v \in Vehicles, s \in Seats :
                CallPutInVehicle(p, v, s) =>
                   OccupantTable' = [SlotCleared(OccupantTable, pV, seat) EXCEPT ![v][s] = p]

C31_RemoveClearsOwnSeat == [][C31_Step]_vars



\* C32: ExitVehicle called for a player that sits in a passenger seat leaves
\* every occupant slot as it was, the driver slot (seat 0) of its vehicle
\* included; the slot of the exiting player's own seat is released by the
\* processing step of the Pulse that completes the exit, which changes no
\* other slot.
ExitFinishedOutside(p) ==
    /\ players[p].m_bSpawned
    /\ VEE(p).bExiting
    /\ players[p].m_pVehicle # NULL
    /\ ~peds[p].inVehicle
    /\ peds[p].task # "getout"

C32_Step ==
    /\ \A p \in Players :
          (/\ players[p].m_bSpawned
           /\ players[p].m_pVehicle # NULL
           /\ players[p].m_byteVehicleSeatId # 0
           /\ CallExitVehicle(p, FALSE, FALSE, FALSE))
          => OccupantTable' = OccupantTable
    /\ (pc = "process" /\ ExitFinishedOutside(cur)) =>
          OccupantTable' = SlotCleared(OccupantTable, players[cur].m_pVehicle,
                                       players[cur].m_byteVehicleSeatId)

C32_ExitKeepsOtherSlots == [][C32_Step]_vars



\* C33: in every reachable state, after any calls (Kill, StreamOut and
\* StreamIn, PutInVehicle, RemoveFromVehicle included): bEntering implies
\* that the pending vehicle of the record is set and that the player has no
\* current vehicle; bExiting implies that the player has a current vehicle;
\* and the processing step of a Pulse never faults on an absent vehicle.
C33_State ==
    \A p \in Players :
        /\ VEE(p).bEntering => (VEE(p).pVehicle # NULL /\ players[p].m_pVehicle = NULL)
        /\ VEE(p).bExiting => players[p].m_pVehicle # NULL

C33_Step == pc = "process" => ~crashed'

C33_FlagCoupling == [](C33_State) /\ [][C33_Step]_vars

\* a player has been streamed out while it was entering: the record keeps
\* the flag together with the pending vehicle
C33_Witness ==
    \E p \in Players :
        /\ ~players[p].m_bSpawned
        /\ VEE(p).bEntering
        /\ VEE(p).pVehicle # NULL
        /\ players[p].m_pVehicle = NULL



\* C34: an EntryCancelled sent by the processing step of a Pulse carries
\* the player, the id of the pending vehicle and the pending seat of the
\* entry it cancels (the seat the EntryRequest of the attempt asked for and
\* the grant passed to EnterVehicle), for every seat.
C34_Step ==
    (pc = "process" /\ CountKind(SentNow, "EntryCancelled") > 0) =>
        /\ VEE(cur).bEntering
        /\ CountKind(SentNow, "EntryCancelled") = 1
        /\ CountOf(SentNow, <<"EntryCancelled", cur, VEE(cur).pVehicle,
                              VEE(cur).byteSeatId>>) = 1

C34_CancelNamesAttempt == [][C34_Step]_vars



\* C35: when the processing step of a Pulse handles the forced exit of a
\* player (current vehicle set, bExiting false, ped outside any vehicle)
\* whose ExitRequest is still outstanding (bRequesting true), the player is
\* idle afterwards with bRequesting false, so that the key check of a later
\* Pulse can send an EntryRequest.
ForcedExitPending(p) ==
    /\ players[p].m_bSpawned
    /\ players[p].m_pVehicle # NULL
    /\ ~VEE(p).bExiting
    /\ ~peds[p].inVehicle

C35_Step ==
    (pc = "process" /\ ForcedExitPending(cur) /\ VEE(cur).bRequesting) =>
        /\ players'[cur].m_pVehicle = NULL
        /\ ~players'[cur].m_vehicleEnterExit.bEntering
        /\ ~players'[cur].m_vehicleEnterExit.bExiting
        /\ ~players'[cur].m_vehicleEnterExit.bRequesting

C35_ForcedExitEndsRequest == [][C35_Step]_vars



\* C36: a health lock survives despawn and respawn: StreamOut and StreamIn
\* of a player whose health is locked at v leave the health locked at v
\* (so that GetHealth returns v); the SetHealth calls that Create and
\* StreamIn make themselves do not release the lock.
C36_Step ==
    LET p == AttrPlayer
    IN  (/\ players[p].m_bHealthLocked
         /\ \/ CallStreamOut(p)
            \/ \E b \in BOOLEAN : CallStreamIn(p, b))
        => /\ players'[p].m_bHealthLocked
           /\ players'[p].m_uiLockedHealth = players[p].m_uiLockedHealth

C36_LockSurvivesRespawn == [][C36_Step]_vars



\* C37: no overshoot, for a player on foot that is neither entering nor
\* exiting and any spacing of the Pulses over a clock that never goes back:
\* while the finish time is set, the progress applied so far is at least 0
\* and less than 1, and the part of the stored error vector applied so far
\* is that fraction of it; an interpolation step never lowers the progress
\* and never takes it beyond 1; and it clears the finish time exactly when
\* the progress reaches 1 or the position is snapped to the target.
\* (Progress is fLastAlpha over the length of the interval.)
IntervalOf(p) == players[p].m_interp.ulFinishTime - players[p].m_interp.ulStartTime

C37_State ==
    \A p \in Players :
        players[p].m_interp.ulFinishTime # 0 =>
            /\ 0 <= players[p].m_interp.fLastAlpha
            /\ players[p].m_interp.fLastAlpha < IntervalOf(p)
            /\ OnFootAndFree(p) => SlicesApplied(p)

C37_Step ==
    (pc = "interp" /\ OnFootAndFree(cur) /\ players[cur].m_interp.ulFinishTime # 0) =>
        LET ip == players[cur].m_interp
            alpha == players'[cur].m_interp.fLastAlpha
        IN  /\ ip.fLastAlpha <= alpha
            /\ alpha <= IntervalOf(cur)
            /\ players'[cur].m_interp.vecError = ip.vecError
            /\ IF alpha = IntervalOf(cur) \/ FartherThanSnap(cur)
               THEN players'[cur].m_interp.ulFinishTime = 0
               ELSE players'[cur].m_interp.ulFinishTime = ip.ulFinishTime
            /\ ~FartherThanSnap(cur) =>
                  IntervalOf(cur) * (peds'[cur].pos - peds[cur].pos)
                      = (alpha - ip.fLastAlpha) * ip.vecError

C37_NoOvershoot == [](C37_State) /\ [][C37_Step]_vars

\* half of an interpolation over two clock units has been applied: the ped
\* stands half way between its start and the target
C37_Witness ==
    LET ip == players[AttrPlayer].m_interp
    IN  /\ pc = "idle"
        /\ OnFootAndFree(AttrPlayer)
        /\ ip.ulFinishTime = ip.ulStartTime + 2
        /\ ip.fLastAlpha = 1
        /\ ip.vecError # 0
        /\ 2 * (ip.vecTarget - peds[AttrPlayer].pos) = ip.vecError



\* C38: entering terminates: with Pulse running on, whenever a spawned
\* player is flagged bEntering and its entry task has ended (the ped inside
\* the vehicle or outside), eventually bEntering is cleared or, short of
\* that, an entry task runs again (a new grant, or the restart of a remote
\* player); so a remote player whose pending vehicle has become door-locked
\* or is no longer streamed in does not stay as it is for ever.
EntryTaskEnded(p) ==
    /\ players[p].m_bSpawned
    /\ VEE(p).bEntering
    /\ peds[p].task # "getin"

C38_EnteringTerminates ==
    \A p \in Players :
        EntryTaskEnded(p) ~> (~VEE(p).bEntering \/ peds[p].task = "getin")



\* C39: the processing step of a Pulse removes the simulation actions that
\* were not granted: an entry task that is active while bEntering is false
\* and an exit task that is active while bExiting is false are gone after
\* the step, whether the ped is on foot or inside a vehicle.
C39_Step ==
    (pc = "process" /\ players[cur].m_bSpawned) =>
        /\ (peds[cur].task = "getin" /\ ~VEE(cur).bEntering) => peds'[cur].task # "getin"
        /\ (peds[cur].task = "getout" /\ ~VEE(cur).bExiting) => peds'[cur].task # "getout"

C39_UngrantedTasksRemoved == [][C39_Step]_vars

=============================================================================
